---- MODULE Spec2Model ----
(***************************************************************************)
(* Ingestion write path of the IoT telemetry pipeline: the Postgres schema *)
(* of ingest_service/db/init/001_tables.sql (tables, sequences, primary    *)
(* keys, foreign keys, the two unique indexes on processed_record) and the *)
(* request handler that writes to it (raw ledger, validation, device       *)
(* resolution, idempotent fact insert, error quarantine).                  *)
(*                                                                         *)
(* Every SQL statement is one atomic step (autocommit); a handler is a     *)
(* sequence of such steps, and several handlers interleave freely.         *)
(***************************************************************************)
EXTENDS Integers, Sequences, FiniteSets, Bags

\* ------------------------------------------------------------------ bounds
\* raw_record rows accepted over a whole run (so also the longest batch)
MaxRaw == 2
\* re-processings of an already stored raw payload over a whole run
MaxReprocess == 1
\* quarantine writes over a whole run of the quarantine on its own
MaxErrorWrites == 3

\* concurrently running request handlers
Workers == {"w1", "w2"}

NULL == "null"

\* ---------------------------------------------------------------- payloads
\* Timestamps as they appear in a payload, and the absolute instant each one
\* names (TIMESTAMPTZ stores the instant, not the text): the first two differ
\* as text and name the same instant.
ParseTimestamp(ts) ==
    CASE ts = "2024-01-01T00:00:00Z"      -> 0
      [] ts = "2024-01-01T01:00:00+01:00" -> 0
      [] ts = "2024-01-01T00:00:05Z"      -> 5
      [] ts = "2024-01-01T00:00:10Z"      -> 10

\* HMAC-SHA256 of the serial under the shared provisioning secret.
Hmac(serial) == <<"hmac-sha256", serial>>

TicksEvent ==
    [event_type |-> "platform_extension_ticks", device_id |-> 42,
     value |-> 100, timestamp |-> "2024-01-01T00:00:00Z"]
\* the same logical event, sent again with the instant written in another zone
TicksEventZoned ==
    [event_type |-> "platform_extension_ticks", device_id |-> 42,
     value |-> 100, timestamp |-> "2024-01-01T01:00:00+01:00"]
MmEvent ==
    [event_type |-> "platform_extension_mm", device_id |-> 42,
     value |-> 5, timestamp |-> "2024-01-01T00:00:05Z"]
\* malformed telemetry: no timestamp
NoTimestampEvent ==
    [event_type |-> "platform_extension_mm", device_id |-> 42, value |-> 5]
StartupEvent ==
    [event_type |-> "device_startup", serial |-> "ABC123",
     provision_token |-> Hmac("ABC123"), timestamp |-> "2024-01-01T00:00:00Z"]
TamperedStartupEvent ==
    [event_type |-> "device_startup", serial |-> "ABC123",
     provision_token |-> Hmac("XYZ999"), timestamp |-> "2024-01-01T00:00:00Z"]

Payloads ==
    {TicksEvent, TicksEventZoned, MmEvent, NoTimestampEvent,
     StartupEvent, TamperedStartupEvent}

\* the same serial provisioned again, later
StartupEventAgain ==
    [event_type |-> "device_startup", serial |-> "ABC123",
     provision_token |-> Hmac("ABC123"), timestamp |-> "2024-01-01T00:00:05Z"]
\* telemetry that names the device id serial ABC123 resolves to
ProvisionedTicksEvent ==
    [event_type |-> "platform_extension_ticks", device_id |-> 7,
     value |-> 100, timestamp |-> "2024-01-01T00:00:05Z"]
\* telemetry whose device_id is an integer just beyond the range of INT
\* (IntMax + 1, see the schema below)
HugeDeviceEvent ==
    [event_type |-> "platform_extension_ticks", device_id |-> 1000,
     value |-> 100, timestamp |-> "2024-01-01T00:00:00Z"]

\* ------------------------------------------------------------------- state
VARIABLES
    raw_record,         \* rows [id, raw_message]
    raw_record_id_seq,  \* last value of raw_record's BIGSERIAL
    ingest_error,       \* rows [raw_data_id, error]
    processed_record,   \* rows [id, device_id, raw_data_id, record_time, type, value]
    processed_record_id_seq,
    device,             \* rows [id, name, init_date]
    record_type,        \* rows [id, name]
    record_type_id_seq,
    handler,            \* per worker: the request it is handling and where it is
    responses,          \* every per-element response returned so far
    error_writes,       \* history: raw id -> the reasons written for it, in order
    reprocessed,        \* history: number of re-processings started
    storage,            \* "up", or "down" while the database is unreachable
    result,             \* the rows the latest analytics read returned
    DATABASE_URL,       \* process.env.DATABASE_URL of the analytics process
    _pool,              \* lib/db: the module's _pool, a reference into pools
    pools,              \* every Pool the analytics process has constructed
    mounted,            \* the dashboard: "no", "yes" (interval running), "gone"
    polls,              \* every loadAll started: the fetch it awaits
    shown               \* per table of the dashboard: the poll whose rows it shows

vars ==
    <<raw_record, raw_record_id_seq, ingest_error, processed_record,
      processed_record_id_seq, device, record_type, record_type_id_seq,
      handler, responses, error_writes, reprocessed, storage, result,
      DATABASE_URL, _pool, pools, mounted, polls, shown>>

\* the analytics process and the dashboard in a browser
web == <<DATABASE_URL, _pool, pools, mounted, polls, shown>>

\* what the write path of a healthy system leaves alone
env == <<storage, result, web>>

tables ==
    <<raw_record, raw_record_id_seq, ingest_error, processed_record,
      processed_record_id_seq, device, record_type, record_type_id_seq>>

\* SQL NULL in an integer column, and in a timestamp column
NoId == 0
NoDate == -1

\* no analytics read has returned yet
NoResult == [key |-> NULL]

\* _pool = null
NoPool == 0

\* the four tables of the dashboard, in the order loadAll fetches them, and
\* a table that shows the rows of no poll (useState([]))
Tables == <<"avg", "exret", "battery", "height">>
NoPoll == 0
TableNames == {Tables[i] : i \in DOMAIN Tables}

\* -------------------------------------------------------------- validation
\* Schema validation of one element: "ok" or the failure reason. A startup
\* event is also authenticated here: its provision_token must be the HMAC of
\* its serial.
TelemetryFields == {"device_id", "event_type", "value", "timestamp"}
StartupFields == {"event_type", "serial", "provision_token", "timestamp"}

IsStartup(payload) ==
    "event_type" \in DOMAIN payload /\ payload.event_type = "device_startup"

\* mutant of ValidateMessage: a token that does not verify is reported with
\* the reason of a structural failure
ValidateMessageOneReason(payload) ==
    IF IsStartup(payload)
    THEN IF ~(StartupFields \subseteq DOMAIN payload) THEN "validation_error"
         ELSE IF payload.provision_token # Hmac(payload.serial)
              THEN "validation_error"
              ELSE "ok"
    ELSE IF ~(TelemetryFields \subseteq DOMAIN payload) THEN "validation_error"
         ELSE "ok"

ValidateMessage(payload) ==
    IF IsStartup(payload)
    THEN IF ~(StartupFields \subseteq DOMAIN payload) THEN "validation_error"
         ELSE IF payload.provision_token # Hmac(payload.serial)
              THEN "invalid_provision_token"
              ELSE "ok"
    ELSE IF ~(TelemetryFields \subseteq DOMAIN payload) THEN "validation_error"
         ELSE "ok"

\* --------------------------------------------------------- schema (001_tables)
\* INSERT INTO record_type (name) VALUES (...) ON CONFLICT (name) DO NOTHING,
\* on the empty table: SERIAL ids 1..4 in the order of the VALUES list.
SeedRecordTypes ==
    {[id |-> 1, name |-> "platform_extension_ticks"],
     [id |-> 2, name |-> "platform_extension_mm"],
     [id |-> 3, name |-> "battery_charge"],
     [id |-> 4, name |-> "platform_height_mm"]}

Ids(table) == {row.id : row \in table}

\* device.id is INT, a signed integer of fixed width, while a JSON integer
\* has no bound. The model checker's integers are no wider than INT, so the
\* range is scaled down: IntMax stands for 2^31 - 1.
IntMax == 999

\* mutant of InIntRange: the id column holds any integer
InIntRangeUnbounded(n) == TRUE

InIntRange(n) == n >= -IntMax - 1 /\ n <= IntMax

\* mutant of device_pkey: the table has no primary key
device_pkey_missing(row) == {}

\* Rows of device that conflict with `row` on the primary key (id), and on
\* the constraint uq_device_name (name).
device_pkey(row) == {d \in device : d.id = row.id}

uq_device_name(row) == {d \in device : d.name = row.name}

\* mutants of RawRecordInsert: the payload is validated first and stored
\* only if valid; a payload already in the ledger is not stored again
RawRecordInsertValidOnly(payload) ==
    IF ValidateMessage(payload) = "ok"
    THEN raw_record \cup {[id |-> raw_record_id_seq + 1, raw_message |-> payload]}
    ELSE raw_record

RawRecordInsertOncePerPayload(payload) ==
    IF \E row \in raw_record : row.raw_message = payload
    THEN raw_record
    ELSE raw_record \cup {[id |-> raw_record_id_seq + 1, raw_message |-> payload]}

\* INSERT INTO raw_record (raw_message) VALUES (payload) RETURNING id:
\* the id comes from the BIGSERIAL, the table after the insert.
RawRecordNextId == raw_record_id_seq + 1

RawRecordInsert(payload) ==
    raw_record \cup {[id |-> RawRecordNextId, raw_message |-> payload]}

RawMessage(raw_id) ==
    (CHOOSE row \in raw_record : row.id = raw_id).raw_message

\* Rows of processed_record that make an insert of `row` conflict with the
\* unique index uq_processed_by_raw (raw_data_id).
uq_processed_by_raw(row) ==
    {q \in processed_record : q.raw_data_id = row.raw_data_id}

\* mutants of uq_processed_event: the index left out, and an index on
\* device_id alone
uq_processed_event_missing(row) == {}

uq_processed_event_on_device_only(row) ==
    {q \in processed_record : q.device_id = row.device_id}

\* ... and with the unique index uq_processed_event
\* (device_id, type, record_time, value).
uq_processed_event(row) ==
    {q \in processed_record :
        /\ q.device_id = row.device_id
        /\ q.type = row.type
        /\ q.record_time = row.record_time
        /\ q.value = row.value}

\* mutant of ProcessedForeignKeysHold: the columns carry no REFERENCES
ProcessedForeignKeysMissing(row) == TRUE

\* The foreign keys of processed_record: device(id), raw_record(id),
\* record_type(id).
ProcessedForeignKeysHold(row) ==
    /\ row.device_id \in Ids(device)
    /\ row.raw_data_id \in Ids(raw_record)
    /\ row.type \in Ids(record_type)

\* mutant of ingest_error_pkey: the table has no key on raw_data_id
ingest_error_no_pkey(raw_id) == {}

\* Rows of ingest_error that conflict with the primary key (raw_data_id).
ingest_error_pkey(raw_id) ==
    {e \in ingest_error : e.raw_data_id = raw_id}

\* mutant of ProcessedUniqueConflicts: neither unique index exists
NoDedupeGuards(row) == {}

\* The dedupe guards together: the rows an insert of `row` conflicts with.
ProcessedUniqueConflicts(row) ==
    uq_processed_by_raw(row) \cup uq_processed_event(row)

\* mutant of ProcessedInsertOutcome: a plain INSERT, without ON CONFLICT DO
\* NOTHING, so that a unique violation is a database error
ProcessedInsertOutcomePlainInsert(row) ==
    IF ~ProcessedForeignKeysHold(row) \/ ProcessedUniqueConflicts(row) # {}
    THEN "persistence_error"
    ELSE "created"

\* INSERT INTO processed_record ... ON CONFLICT DO NOTHING RETURNING id.
\* The outcome: "created", "duplicate" (a unique index suppressed the row)
\* or "persistence_error" (a constraint other than the two unique indexes).
ProcessedInsertOutcome(row) ==
    IF ~ProcessedForeignKeysHold(row) THEN "persistence_error"
    ELSE IF ProcessedUniqueConflicts(row) # {} THEN "duplicate"
    ELSE "created"

\* ... and the table after it.
ProcessedRecordInsert(row) ==
    IF ProcessedInsertOutcome(row) = "created"
    THEN processed_record \cup {row}
    ELSE processed_record

\* INSERT INTO ingest_error (raw_data_id, error) VALUES (raw_id, reason)
\* ON CONFLICT (raw_data_id) DO UPDATE SET error = EXCLUDED.error:
\* the table after the upsert.
\* The foreign key to raw_record(id) refuses a raw id that names no row.
IngestErrorUpsert(raw_id, reason) ==
    IF raw_id \notin Ids(raw_record) THEN ingest_error
    ELSE (ingest_error \ ingest_error_pkey(raw_id))
            \cup {[raw_data_id |-> raw_id, error |-> reason]}

\* ------------------------------------------------------------- the handler
\* The numeric device id a serial maps to, and the text of a numeric id (the
\* name of a placeholder device).
SerialToId(serial) == CASE serial = "ABC123" -> 7 [] serial = "XYZ999" -> 8
IdText(id) ==
    CASE id = 42 -> "42" [] id = 7 -> "7" [] id = 8 -> "8"
      [] id = 1000 -> "1000"

\* The device row an accepted event resolves to when none exists yet.
NewDeviceRow(payload) ==
    IF IsStartup(payload)
    THEN [id |-> SerialToId(payload.serial), name |-> payload.serial,
          init_date |-> ParseTimestamp(payload.timestamp)]
    ELSE [id |-> payload.device_id, name |-> IdText(payload.device_id),
          init_date |-> NoDate]

\* Create-or-fetch of a device row: "created", "exists" (the id is taken; a
\* startup event then renames the row to its serial) or "persistence_error"
\* (the id does not fit the column, or the name belongs to another row).
DeviceOutcome(row, startup) ==
    IF ~InIntRange(row.id) THEN "persistence_error"
    ELSE IF device_pkey(row) # {}
         THEN IF startup /\ (\E d \in uq_device_name(row) : d.id # row.id)
              THEN "persistence_error"
              ELSE "exists"
         ELSE IF uq_device_name(row) # {} THEN "persistence_error"
              ELSE "created"

\* mutant of DeviceAfter: a startup event for an existing device records
\* its own timestamp as init_date
DeviceAfterRefreshInitDate(row, startup) ==
    CASE DeviceOutcome(row, startup) = "created" -> device \cup {row}
      [] DeviceOutcome(row, startup) = "exists" /\ startup ->
            {IF d.id = row.id THEN row ELSE d : d \in device}
      [] OTHER -> device

\* ... and the table after it: init_date is recorded on creation only.
DeviceAfter(row, startup) ==
    CASE DeviceOutcome(row, startup) = "created" -> device \cup {row}
      [] DeviceOutcome(row, startup) = "exists" /\ startup ->
            {IF d.id = row.id THEN [d EXCEPT !.name = row.name] ELSE d :
                d \in device}
      [] OTHER -> device

\* mutant of FactRow: ticks are converted to millimetres when written
FactRowConverted(h) ==
    LET payload == h.batch[h.idx] IN
    [id |-> processed_record_id_seq + 1,
     device_id |-> h.device_id,
     raw_data_id |-> h.raw_id,
     record_time |-> ParseTimestamp(payload.timestamp),
     type |-> h.type_id,
     value |-> IF payload.event_type = "platform_extension_ticks"
               THEN payload.value \div 20 ELSE payload.value]

\* The fact row of a telemetry element, with the id the BIGSERIAL hands out.
FactRow(h) ==
    LET payload == h.batch[h.idx] IN
    [id |-> processed_record_id_seq + 1,
     device_id |-> h.device_id,
     raw_data_id |-> h.raw_id,
     record_time |-> ParseTimestamp(payload.timestamp),
     type |-> h.type_id,
     value |-> payload.value]

Idle ==
    [pc |-> "idle", mode |-> "none", batch |-> <<>>, idx |-> 0, raw_id |-> NoId,
     reason |-> NULL, device_id |-> NoId, type_id |-> NoId, out |-> <<>>]

Response(raw_id, processed_id, status) ==
    [raw_id |-> raw_id, processed_id |-> processed_id, status |-> status]

\* mutant of Answered: an invalid element ends the batch
AnsweredStopAtInvalid(h, resp) ==
    IF h.idx < Len(h.batch) /\ resp.status # "invalid"
    THEN [h EXCEPT !.pc = "raw", !.idx = h.idx + 1, !.raw_id = NoId,
                   !.reason = NULL, !.device_id = NoId, !.type_id = NoId,
                   !.out = Append(h.out, resp)]
    ELSE [h EXCEPT !.pc = "done", !.out = Append(h.out, resp)]

\* The handler after it has answered the current element with `resp`: on to
\* the next element of the batch, or done.
Answered(h, resp) ==
    IF h.idx < Len(h.batch)
    THEN [h EXCEPT !.pc = "raw", !.idx = h.idx + 1, !.raw_id = NoId,
                   !.reason = NULL, !.device_id = NoId, !.type_id = NoId,
                   !.out = Append(h.out, resp)]
    ELSE [h EXCEPT !.pc = "done", !.out = Append(h.out, resp)]

\* Elements of running requests that have no raw_record row yet.
Pending(h) ==
    IF h.mode = "request" /\ h.pc # "done"
    THEN Len(h.batch) - h.idx + (IF h.pc = "raw" THEN 1 ELSE 0)
    ELSE 0

RECURSIVE SumPending(_)
SumPending(ws) ==
    IF ws = {} THEN 0
    ELSE LET w == CHOOSE x \in ws : TRUE
         IN Pending(handler[w]) + SumPending(ws \ {w})

\* raw_record rows the run may still accept
Room == MaxRaw - raw_record_id_seq - SumPending(Workers)

\* the request bodies of at most n elements
Batches(n) == UNION {[1..k -> Payloads] : k \in 1..n}

\* no handler is running
AllFree == \A w \in Workers : handler[w].pc = "idle"

Init ==
    /\ raw_record = {}
    /\ raw_record_id_seq = 0
    /\ ingest_error = {}
    /\ processed_record = {}
    /\ processed_record_id_seq = 0
    /\ device = {}
    /\ record_type = SeedRecordTypes
    /\ record_type_id_seq = 4
    /\ handler = [w \in Workers |-> Idle]
    /\ responses = {}
    /\ error_writes = <<>>
    /\ reprocessed = 0
    /\ storage = "up"
    /\ result = NoResult
    /\ DATABASE_URL = "postgres://db"
    /\ _pool = NoPool
    /\ pools = <<>>
    /\ mounted = "no"
    /\ polls = <<>>
    /\ shown = [table \in TableNames |-> NoPoll]

\* POST /ingest with one document or an array of documents.
Receive(w, batch) ==
    /\ handler[w].pc = "idle"
    /\ Len(batch) <= Room
    /\ handler' = [handler EXCEPT ![w] =
                      [Idle EXCEPT !.pc = "raw", !.mode = "request",
                                   !.batch = batch, !.idx = 1]]
    /\ UNCHANGED <<tables, responses, error_writes, reprocessed, env>>

\* 1) store the element in raw_record, before anything else
StoreRaw(w) ==
    LET h == handler[w] IN
    /\ h.pc = "raw"
    /\ storage = "up"
    /\ raw_record' = RawRecordInsert(h.batch[h.idx])
    /\ raw_record_id_seq' = RawRecordNextId
    /\ handler' = [handler EXCEPT ![w] =
                      [h EXCEPT !.pc = "validate", !.raw_id = RawRecordNextId]]
    /\ UNCHANGED <<ingest_error, processed_record, processed_record_id_seq,
                   device, record_type, record_type_id_seq, responses,
                   error_writes, reprocessed, env>>

\* mutant of Validate: the placeholder device of a telemetry element is
\* created before the element is validated
ValidateDeviceFirst(w) ==
    LET h == handler[w]
        payload == h.batch[h.idx]
        verdict == ValidateMessage(payload)
    IN
    /\ h.pc = "validate"
    /\ handler' = [handler EXCEPT ![w] =
                      IF verdict = "ok"
                      THEN [h EXCEPT !.pc = "device"]
                      ELSE [h EXCEPT !.pc = "quarantine", !.reason = verdict]]
    /\ device' =
          IF "device_id" \in DOMAIN payload /\ payload.device_id \notin Ids(device)
          THEN device \cup {[id |-> payload.device_id,
                             name |-> IdText(payload.device_id),
                             init_date |-> NoDate]}
          ELSE device
    /\ UNCHANGED <<raw_record, raw_record_id_seq, ingest_error,
                   processed_record, processed_record_id_seq, record_type,
                   record_type_id_seq, responses, error_writes, reprocessed,
                   env>>

\* 2) validate the message; for a startup event verify the HMAC token
Validate(w) ==
    LET h == handler[w]
        verdict == ValidateMessage(h.batch[h.idx])
    IN
    /\ h.pc = "validate"
    /\ handler' = [handler EXCEPT ![w] =
                      IF verdict = "ok"
                      THEN [h EXCEPT !.pc = "device"]
                      ELSE [h EXCEPT !.pc = "quarantine", !.reason = verdict]]
    /\ UNCHANGED <<tables, responses, error_writes, reprocessed, env>>

\* 3) ensure the device row exists: create-or-fetch by serial for a startup
\* event, lazy create by numeric id for telemetry. A startup event is
\* answered here: it provisions the device and writes no fact. A database
\* error goes the way of every error: to ingest_error.
ResolveDevice(w) ==
    LET h == handler[w]
        payload == h.batch[h.idx]
        row == NewDeviceRow(payload)
        outcome == DeviceOutcome(row, IsStartup(payload))
    IN
    /\ h.pc = "device"
    /\ storage = "up"
    /\ device' = DeviceAfter(row, IsStartup(payload))
    /\ IF outcome = "persistence_error"
       THEN /\ handler' = [handler EXCEPT ![w] =
                              [h EXCEPT !.pc = "quarantine",
                                        !.reason = "db_error"]]
            /\ UNCHANGED responses
       ELSE IF IsStartup(payload)
       THEN LET resp == Response(h.raw_id, NoId, "ok") IN
            /\ handler' = [handler EXCEPT ![w] =
                              Answered([h EXCEPT !.device_id = row.id], resp)]
            /\ responses' = responses \cup {resp}
       ELSE /\ handler' = [handler EXCEPT ![w] =
                              [h EXCEPT !.pc = "type", !.device_id = row.id]]
            /\ UNCHANGED responses
    /\ UNCHANGED <<raw_record, raw_record_id_seq, ingest_error,
                   processed_record, processed_record_id_seq, record_type,
                   record_type_id_seq, error_writes, reprocessed, env>>

\* the record_type row of the event's type name, inserted on first sight
ResolveType(w) ==
    LET h == handler[w]
        name == h.batch[h.idx].event_type
        known == {t \in record_type : t.name = name}
    IN
    /\ h.pc = "type"
    /\ storage = "up"
    /\ IF known # {}
       THEN /\ handler' = [handler EXCEPT ![w] =
                  [h EXCEPT !.pc = "insert",
                            !.type_id = (CHOOSE t \in known : TRUE).id]]
            /\ UNCHANGED <<record_type, record_type_id_seq>>
       ELSE /\ record_type' =
                  record_type \cup {[id |-> record_type_id_seq + 1, name |-> name]}
            /\ record_type_id_seq' = record_type_id_seq + 1
            /\ handler' = [handler EXCEPT ![w] =
                  [h EXCEPT !.pc = "insert", !.type_id = record_type_id_seq + 1]]
    /\ UNCHANGED <<raw_record, raw_record_id_seq, ingest_error,
                   processed_record, processed_record_id_seq, device,
                   responses, error_writes, reprocessed, env>>

\* 4) insert into processed_record with ON CONFLICT DO NOTHING, and
\* 5) answer {raw_id, processed_id | null, status}. A database error goes
\* the way of every error: to ingest_error.
InsertProcessed(w) ==
    LET h == handler[w]
        row == FactRow(h)
        outcome == ProcessedInsertOutcome(row)
        resp == Response(h.raw_id,
                         IF outcome = "created" THEN row.id ELSE NoId, "ok")
    IN
    /\ h.pc = "insert"
    /\ storage = "up"
    /\ processed_record' = ProcessedRecordInsert(row)
    /\ processed_record_id_seq' = processed_record_id_seq + 1
    /\ IF outcome = "persistence_error"
       THEN /\ handler' = [handler EXCEPT ![w] =
                              [h EXCEPT !.pc = "quarantine",
                                        !.reason = "db_error"]]
            /\ UNCHANGED responses
       ELSE /\ handler' = [handler EXCEPT ![w] = Answered(h, resp)]
            /\ responses' = responses \cup {resp}
    /\ UNCHANGED <<raw_record, raw_record_id_seq, ingest_error, device,
                   record_type, record_type_id_seq, error_writes,
                   reprocessed, env>>

\* The error quarantine: given a raw id and a failure reason, upsert the
\* ingest_error row of that raw id.
QuarantineWrite(raw_id, reason) ==
    /\ ingest_error' = IngestErrorUpsert(raw_id, reason)
    /\ error_writes' =
          [r \in DOMAIN error_writes \cup {raw_id} |->
              IF r \in DOMAIN error_writes
              THEN IF r = raw_id THEN Append(error_writes[r], reason)
                   ELSE error_writes[r]
              ELSE <<reason>>]

\* on error: upsert ingest_error keyed by the raw id, answer "invalid"
Quarantine(w) ==
    LET h == handler[w]
        resp == Response(h.raw_id, NoId, "invalid")
    IN
    /\ h.pc = "quarantine"
    /\ storage = "up"
    /\ QuarantineWrite(h.raw_id, h.reason)
    /\ handler' = [handler EXCEPT ![w] = Answered(h, resp)]
    /\ responses' = responses \cup {resp}
    /\ UNCHANGED <<raw_record, raw_record_id_seq, processed_record,
                   processed_record_id_seq, device, record_type,
                   record_type_id_seq, reprocessed, env>>

\* the HTTP response leaves; the worker is free again
Finish(w) ==
    /\ handler[w].pc = "done"
    /\ handler' = [handler EXCEPT ![w] = Idle]
    /\ UNCHANGED <<tables, responses, error_writes, reprocessed, env>>

\* Processing of a stored raw payload again (a retry or replay from the
\* ledger): the same steps, without a new raw_record row.
Reprocess(w, raw_id) ==
    /\ handler[w].pc = "idle"
    /\ reprocessed < MaxReprocess
    /\ raw_id \in Ids(raw_record)
    /\ handler' = [handler EXCEPT ![w] =
                      [Idle EXCEPT !.pc = "validate", !.mode = "reprocess",
                                   !.batch = <<RawMessage(raw_id)>>, !.idx = 1,
                                   !.raw_id = raw_id]]
    /\ reprocessed' = reprocessed + 1
    /\ UNCHANGED <<tables, responses, error_writes, env>>

Next ==
    \/ \E w \in Workers, batch \in Batches(Room) : Receive(w, batch)
    \/ \E w \in Workers : StoreRaw(w)
    \/ \E w \in Workers : Validate(w)
    \/ \E w \in Workers : ResolveDevice(w)
    \/ \E w \in Workers : ResolveType(w)
    \/ \E w \in Workers : InsertProcessed(w)
    \/ \E w \in Workers : Quarantine(w)
    \/ \E w \in Workers : Finish(w)
    \/ \E w \in Workers, raw_id \in Ids(raw_record) : Reprocess(w, raw_id)

Spec == Init /\ [][Next]_vars

\* ------------------------------------------ the device resolver in sequence
\* One client sends one document per request and waits for the answer.
MaxEvents == 3

ResolverEvents ==
    {StartupEvent, StartupEventAgain, ProvisionedTicksEvent, TicksEvent,
     HugeDeviceEvent}

\* POST /ingest with one document, the limit-th at the latest
ReceiveOne(payload, limit) ==
    /\ AllFree
    /\ raw_record_id_seq < limit
    /\ handler' = [handler EXCEPT !["w1"] =
                      [Idle EXCEPT !.pc = "raw", !.mode = "request",
                                   !.batch = <<payload>>, !.idx = 1]]
    /\ UNCHANGED <<tables, responses, error_writes, reprocessed, storage, web>>
    /\ result' = NoResult

\* the steps of the handler that serves it
Serve ==
    \/ StoreRaw("w1")
    \/ Validate("w1")
    \/ ResolveDevice("w1")
    \/ ResolveType("w1")
    \/ InsertProcessed("w1")
    \/ Quarantine("w1")
    \/ Finish("w1")

NextResolver ==
    \/ \E payload \in ResolverEvents : ReceiveOne(payload, MaxEvents)
    \/ Serve

SpecResolver == Init /\ [][NextResolver]_vars

\* ------------------------------------------------ views (002_views.sql)
\* NUMERIC is modelled in fixed point: the integer n stands for
\* n / NumericScale. Stored values are the integers of the payloads; the
\* columns a view computes are in fixed point.
NumericScale == 100
Numeric(v) == v * NumericScale

\* a / b for an integer a and a positive integer b, in fixed point, rounded
\* half away from zero at the last digit kept
NumericDiv(a, b) ==
    LET n == (IF a >= 0 THEN a ELSE -a) * NumericScale
        q == IF 2 * (n % b) >= b THEN (n \div b) + 1 ELSE n \div b
    IN IF a >= 0 THEN q ELSE -q

\* the divisor of `pr.value / 20.0`
TicksPerMm == 20

ExtensionTypes == {"platform_extension_mm", "platform_extension_ticks"}

\* mutants of ExtensionMm: ticks are passed through unconverted; ticks are
\* divided as integers
ExtensionMmUnconverted(name, value) == Numeric(value)

ExtensionMmIntegerDivision(name, value) ==
    CASE name = "platform_extension_mm"    -> Numeric(value)
      [] name = "platform_extension_ticks" -> Numeric(value \div TicksPerMm)

\* CASE WHEN rt.name = 'platform_extension_mm' THEN pr.value
\*      WHEN rt.name = 'platform_extension_ticks' THEN pr.value / 20.0 END
ExtensionMm(name, value) ==
    CASE name = "platform_extension_mm"    -> Numeric(value)
      [] name = "platform_extension_ticks" -> NumericDiv(value, TicksPerMm)

\* mutant of ExtensionJoin: the view has no WHERE clause
ExtensionJoinUnfiltered ==
    {pair \in processed_record \X record_type : pair[2].id = pair[1].type}

\* FROM processed_record pr JOIN record_type rt ON rt.id = pr.type
\* WHERE rt.name IN ('platform_extension_mm','platform_extension_ticks')
ExtensionJoin ==
    {pair \in processed_record \X record_type :
        pair[2].id = pair[1].type /\ pair[2].name \in ExtensionTypes}

\* the SELECT list of v_platform_extension_mm, for one row of the join
UnifiedRow(pair) ==
    [device_id    |-> pair[1].device_id,
     observed_at  |-> pair[1].record_time,
     \* (a CASE without ELSE: NULL for any other name, which the WHERE
     \* clause never lets through; the model has a zero there)
     extension_mm |-> IF pair[2].name \in ExtensionTypes
                      THEN ExtensionMm(pair[2].name, pair[1].value)
                      ELSE Numeric(0)]

RECURSIVE BagOfRows(_)
BagOfRows(pairs) ==
    IF pairs = {} THEN EmptyBag
    ELSE LET pair == CHOOSE x \in pairs : TRUE
         IN SetToBag({UnifiedRow(pair)}) (+) BagOfRows(pairs \ {pair})

\* the rows of the view: a bag, for two facts may give equal rows
v_platform_extension_mm == BagOfRows(ExtensionJoin)

\* OVER (PARTITION BY device_id ORDER BY observed_at): the orders in which
\* the window may see the rows of the view, sorted by device and time; rows
\* of one device with equal observed_at come in either order.
WindowOrders ==
    LET n == Cardinality(ExtensionJoin) IN
    {order \in [1..n -> ExtensionJoin] :
        /\ \A i, j \in 1..n : order[i] = order[j] => i = j
        /\ \A i, j \in 1..n :
              i < j =>
                 \/ order[i][1].device_id < order[j][1].device_id
                 \/ /\ order[i][1].device_id = order[j][1].device_id
                    /\ order[i][1].record_time <= order[j][1].record_time}

\* SQL NULL in a numeric column is the empty tuple, a value x is <<x>>
NullNumeric == <<>>

\* mutant of Lag: the window is not partitioned by device
LagUnpartitioned(rows, i) ==
    IF i > 1 THEN <<rows[i - 1].extension_mm>> ELSE NullNumeric

\* LAG(extension_mm) OVER (PARTITION BY device_id ORDER BY observed_at)
Lag(rows, i) ==
    IF i > 1 /\ rows[i - 1].device_id = rows[i].device_id
    THEN <<rows[i - 1].extension_mm>>
    ELSE NullNumeric

\* WITH series AS (SELECT device_id, observed_at, extension_mm, LAG(...) AS
\* prev_mm FROM v_platform_extension_mm)
ExtensionSeries(order) ==
    LET rows == [i \in DOMAIN order |-> UnifiedRow(order[i])] IN
    [i \in DOMAIN order |->
        [device_id    |-> rows[i].device_id,
         observed_at  |-> rows[i].observed_at,
         extension_mm |-> rows[i].extension_mm,
         prev_mm      |-> Lag(rows, i)]]

\* mutant of IsExtension: a reading equal to the one before counts
IsExtensionOrTie(row) ==
    row.prev_mm # NullNumeric /\ row.extension_mm >= row.prev_mm[1]

\* prev_mm IS NOT NULL AND extension_mm > prev_mm, and with < for retractions
IsExtension(row) ==
    row.prev_mm # NullNumeric /\ row.extension_mm > row.prev_mm[1]

IsRetraction(row) ==
    row.prev_mm # NullNumeric /\ row.extension_mm < row.prev_mm[1]

\* SUM(CASE WHEN ... THEN 1 ELSE 0 END) over the first i rows of the series
\* that belong to the group of device d
RECURSIVE SumExtensions(_, _, _)
SumExtensions(series, d, i) ==
    IF i = 0 THEN 0
    ELSE (IF series[i].device_id = d /\ IsExtension(series[i]) THEN 1 ELSE 0)
            + SumExtensions(series, d, i - 1)

RECURSIVE SumRetractions(_, _, _)
SumRetractions(series, d, i) ==
    IF i = 0 THEN 0
    ELSE (IF series[i].device_id = d /\ IsRetraction(series[i]) THEN 1 ELSE 0)
            + SumRetractions(series, d, i - 1)

\* SELECT device_id, SUM(...) AS extensions, SUM(...) AS retractions
\* FROM series GROUP BY device_id
metric_extension_vs_retraction(series) ==
    {[device_id   |-> d,
      extensions  |-> SumExtensions(series, d, Len(series)),
      retractions |-> SumRetractions(series, d, Len(series))] :
        d \in {series[i].device_id : i \in DOMAIN series}}

\* ------------------------------- example query side_switches (run.ts)
\* CASE WHEN extension_mm > 0 THEN 'right' WHEN extension_mm < 0 THEN 'left'
\* ELSE 'center' END
Side(extension_mm) ==
    CASE extension_mm > 0 -> "right"
      [] extension_mm < 0 -> "left"
      [] OTHER            -> "center"

\* mutant of LagSide: the previous reading that is not at center
LagSideSkippingCenter(rows, i) ==
    LET before == {j \in 1..(i - 1) :
                      /\ rows[j].device_id = rows[i].device_id
                      /\ Side(rows[j].extension_mm) # "center"}
    IN IF before = {} THEN NULL
       ELSE Side(rows[CHOOSE j \in before : \A k \in before : k <= j].extension_mm)

\* LAG(CASE ... END) OVER (PARTITION BY device_id ORDER BY observed_at)
LagSide(rows, i) ==
    IF i > 1 /\ rows[i - 1].device_id = rows[i].device_id
    THEN Side(rows[i - 1].extension_mm)
    ELSE NULL

\* WITH series AS (SELECT device_id, observed_at, extension_mm, CASE ... AS
\* side, LAG(...) AS prev_side FROM v_platform_extension_mm)
SideSeries(order) ==
    LET rows == [i \in DOMAIN order |-> UnifiedRow(order[i])] IN
    [i \in DOMAIN order |->
        [device_id    |-> rows[i].device_id,
         observed_at  |-> rows[i].observed_at,
         extension_mm |-> rows[i].extension_mm,
         side         |-> Side(rows[i].extension_mm),
         prev_side    |-> LagSide(rows, i)]]

\* SELECT device_id, COUNT(*) FILTER (...) AS left_to_right, COUNT(*) FILTER
\* (...) AS right_to_left FROM series WHERE prev_side IS NOT NULL AND
\* side <> 'center' GROUP BY device_id
side_switches(series) ==
    LET kept == {i \in DOMAIN series :
                    series[i].prev_side # NULL /\ series[i].side # "center"}
    IN {[device_id     |-> d,
         left_to_right |->
            Cardinality({i \in kept : /\ series[i].device_id = d
                                      /\ series[i].prev_side = "left"
                                      /\ series[i].side = "right"}),
         right_to_left |->
            Cardinality({i \in kept : /\ series[i].device_id = d
                                      /\ series[i].prev_side = "right"
                                      /\ series[i].side = "left"})] :
            d \in {series[i].device_id : i \in kept}}

\* ------------------------------------------- readings and reads of them
MaxReadings == 3

TicksLeftEvent ==
    [event_type |-> "platform_extension_ticks", device_id |-> 42,
     value |-> -40, timestamp |-> "2024-01-01T00:00:00Z"]
\* ten ticks are half a millimetre
TicksHalfEvent ==
    [event_type |-> "platform_extension_ticks", device_id |-> 42,
     value |-> 10, timestamp |-> "2024-01-01T00:00:10Z"]
MmCenterEvent ==
    [event_type |-> "platform_extension_mm", device_id |-> 42,
     value |-> 0, timestamp |-> "2024-01-01T00:00:05Z"]
MmLeftEvent ==
    [event_type |-> "platform_extension_mm", device_id |-> 42,
     value |-> -2, timestamp |-> "2024-01-01T00:00:05Z"]
BatteryEvent ==
    [event_type |-> "battery_charge", device_id |-> 42,
     value |-> 80, timestamp |-> "2024-01-01T00:00:00Z"]
\* five millimetres at the instant of TicksEvent, which is 100 ticks
MmSameInstantEvent ==
    [event_type |-> "platform_extension_mm", device_id |-> 42,
     value |-> 5, timestamp |-> "2024-01-01T00:00:00Z"]
OtherDeviceMmEvent ==
    [event_type |-> "platform_extension_mm", device_id |-> 7,
     value |-> 5, timestamp |-> "2024-01-01T00:00:00Z"]

Readings ==
    {TicksEvent, TicksLeftEvent, TicksHalfEvent, MmCenterEvent, MmEvent,
     MmLeftEvent, MmSameInstantEvent, BatteryEvent, OtherDeviceMmEvent,
     NoTimestampEvent}

\* SELECT * FROM v_platform_extension_mm
SelectUnified ==
    /\ AllFree
    /\ result' = [key |-> "v_platform_extension_mm",
                  rows |-> v_platform_extension_mm]
    /\ UNCHANGED <<tables, handler, responses, error_writes, reprocessed,
                   storage, web>>

\* SELECT * FROM metric_extension_vs_retraction
SelectExtensionVsRetraction ==
    /\ AllFree
    /\ \E order \in WindowOrders :
          result' = [key    |-> "metric_extension_vs_retraction",
                     series |-> ExtensionSeries(order),
                     rows   |-> metric_extension_vs_retraction(
                                    ExtensionSeries(order))]
    /\ UNCHANGED <<tables, handler, responses, error_writes, reprocessed,
                   storage, web>>

\* GET /api/examples/run?key=side_switches
RunSideSwitches ==
    /\ AllFree
    /\ \E order \in WindowOrders :
          result' = [key    |-> "side_switches",
                     series |-> SideSeries(order),
                     rows   |-> side_switches(SideSeries(order))]
    /\ UNCHANGED <<tables, handler, responses, error_writes, reprocessed,
                   storage, web>>

NextViews ==
    \/ \E payload \in Readings : ReceiveOne(payload, MaxReadings)
    \/ Serve
    \/ SelectUnified
    \/ SelectExtensionVsRetraction
    \/ RunSideSwitches

SpecViews == Init /\ [][NextViews]_vars

\* ------------------------------------- the diagnostic view ingest_parse
\* no row on the right of a LEFT JOIN
NoRow == [id |-> NoId]

\* rr.raw_message->>'device_id': the field as text, NULL when it is absent
JsonText(raw_message, field) ==
    IF field \in DOMAIN raw_message THEN IdText(raw_message[field]) ELSE NULL

\* the integer a decimal numeral denotes
DecimalValue(text) ==
    CASE text = "42" -> 42 [] text = "7" -> 7 [] text = "8" -> 8
      [] text = "1000" -> 1000

\* (text)::int raises "integer out of range" for a numeral beyond INT ...
IntCastFails(text) == text # NULL /\ ~InIntRange(DecimalValue(text))

\* ... and is the integer otherwise, NULL for NULL
IntCast(text) == IF text = NULL THEN NullNumeric ELSE <<DecimalValue(text)>>

\* FROM raw_record rr LEFT JOIN processed_record pr ON pr.raw_data_id = rr.id
\* LEFT JOIN ingest_error ie ON ie.raw_data_id = rr.id
ParseJoin ==
    {triple \in raw_record \X (processed_record \cup {NoRow})
                           \X (ingest_error \cup {NoRow}) :
        LET rr == triple[1]
            facts == {pr \in processed_record : pr.raw_data_id = rr.id}
            errors == {ie \in ingest_error : ie.raw_data_id = rr.id}
        IN /\ triple[2] \in (IF facts = {} THEN {NoRow} ELSE facts)
           /\ triple[3] \in (IF errors = {} THEN {NoRow} ELSE errors)}

\* COALESCE takes its second argument only when the first is NULL: the cast
\* is made for the raw rows without a fact
ParseRowFails(triple) ==
    triple[2] = NoRow
        /\ IntCastFails(JsonText(triple[1].raw_message, "device_id"))

\* SELECT rr.id AS raw_data_id, COALESCE(pr.device_id, (...)::int) AS
\* device_id, (pr.id IS NOT NULL) AS parse_ok, ie.error
ParseRow(triple) ==
    [raw_data_id |-> triple[1].id,
     device_id   |-> IF triple[2] # NoRow THEN <<triple[2].device_id>>
                     ELSE IntCast(JsonText(triple[1].raw_message, "device_id")),
     parse_ok    |-> triple[2] # NoRow,
     error       |-> IF triple[3] = NoRow THEN NULL ELSE triple[3].error]

RECURSIVE BagOfParseRows(_)
BagOfParseRows(triples) ==
    IF triples = {} THEN EmptyBag
    ELSE LET triple == CHOOSE x \in triples : TRUE
         IN SetToBag({ParseRow(triple)}) (+) BagOfParseRows(triples \ {triple})

\* SELECT * FROM ingest_parse: the rows, or the error of the statement
SelectIngestParse ==
    /\ AllFree
    /\ result' =
          IF \E triple \in ParseJoin : ParseRowFails(triple)
          THEN [key |-> "ingest_parse", error |-> "integer out of range",
                rows |-> EmptyBag]
          ELSE [key |-> "ingest_parse", error |-> NULL,
                rows |-> BagOfParseRows(ParseJoin)]
    /\ UNCHANGED <<tables, handler, responses, error_writes, reprocessed,
                   storage, web>>

DiagnosedEvents ==
    {TicksEvent, NoTimestampEvent, StartupEvent, TamperedStartupEvent,
     HugeDeviceEvent}

NextDiagnostics ==
    \/ \E payload \in DiagnosedEvents : ReceiveOne(payload, MaxEvents)
    \/ Serve
    \/ SelectIngestParse

SpecDiagnostics == Init /\ [][NextDiagnostics]_vars

\* ------------------------------------------ the init scripts, run again
\* the VALUES list of the seed, in its order
SeedNames ==
    <<"platform_extension_ticks", "platform_extension_mm", "battery_charge",
      "platform_height_mm">>

\* mutant of SeedInsert: a plain INSERT into a table without the unique
\* constraint on name
RECURSIVE SeedInsertPlain(_, _, _)
SeedInsertPlain(table, seq, names) ==
    IF names = <<>> THEN [table |-> table, seq |-> seq]
    ELSE SeedInsertPlain(table \cup {[id |-> seq + 1, name |-> Head(names)]},
                         seq + 1, Tail(names))

\* INSERT INTO record_type (name) VALUES (...) ON CONFLICT (name) DO NOTHING
\* on a table and the last value of its SERIAL: every proposed row draws an
\* id from the sequence, and is dropped when its name is there already.
RECURSIVE SeedInsert(_, _, _)
SeedInsert(table, seq, names) ==
    IF names = <<>> THEN [table |-> table, seq |-> seq]
    ELSE LET conflict == \E t \in table : t.name = Head(names)
         IN SeedInsert(IF conflict THEN table
                       ELSE table \cup {[id |-> seq + 1, name |-> Head(names)]},
                       seq + 1, Tail(names))

\* the SERIAL of record_type is followed up to this value
MaxTypeId == 13

\* telemetry of a type that is not seeded
NewTypeEvent ==
    [event_type |-> "platform_tilt_deg", device_id |-> 42,
     value |-> 3, timestamp |-> "2024-01-01T00:00:00Z"]

InitEvents == {TicksEvent, MmEvent, NoTimestampEvent, StartupEvent, NewTypeEvent}

\* 001_tables.sql and 002_views.sql run on a database they have initialized:
\* CREATE TABLE IF NOT EXISTS and CREATE [UNIQUE] INDEX IF NOT EXISTS find
\* their objects and do nothing, CREATE OR REPLACE VIEW replaces each view by
\* the same definition, and the seed runs.
RunInit ==
    LET seeded == SeedInsert(record_type, record_type_id_seq, SeedNames) IN
    /\ seeded.seq <= MaxTypeId
    /\ record_type' = seeded.table
    /\ record_type_id_seq' = seeded.seq
    /\ UNCHANGED <<raw_record, raw_record_id_seq, ingest_error,
                   processed_record, processed_record_id_seq, device,
                   handler, responses, error_writes, reprocessed, env>>

NextInit ==
    \/ \E payload \in InitEvents : ReceiveOne(payload, MaxEvents)
    \/ Serve
    \/ RunInit

SpecInit == Init /\ [][NextInit]_vars

\* ----------------------------------- the schema under any client's writes
\* Beside the ingest handler, any client of the database may send an INSERT
\* into one of the two tables that carry foreign keys, with references of its
\* own choosing; the constraints of 001_tables.sql decide.
MaxFacts == 2
\* requests served over a whole run of this specification
MaxWrites == 2

SchemaEvents == {TicksEvent, NoTimestampEvent, StartupEvent, NewTypeEvent}

\* rows a client may propose: devices 7 and 42, raw ids up to the last one
\* the run can hand out, the ticks type and the first type after the seed
ProposedFacts ==
    [id : {processed_record_id_seq + 1}, device_id : {7, 42},
     raw_data_id : 1..MaxWrites, record_time : {0}, type : {1, 5},
     value : {5}]

\* INSERT INTO processed_record (...) VALUES (...) ON CONFLICT DO NOTHING
SqlInsertProcessed(row) ==
    /\ processed_record_id_seq < MaxFacts
    /\ processed_record' = ProcessedRecordInsert(row)
    /\ processed_record_id_seq' = processed_record_id_seq + 1
    /\ UNCHANGED <<raw_record, raw_record_id_seq, ingest_error, device,
                   record_type, record_type_id_seq, handler, responses,
                   error_writes, reprocessed, env>>

\* INSERT INTO ingest_error (raw_data_id, error) VALUES (...) ON CONFLICT
\* (raw_data_id) DO UPDATE SET error = EXCLUDED.error
SqlUpsertError(raw_id, reason) ==
    /\ ingest_error' = IngestErrorUpsert(raw_id, reason)
    /\ ingest_error' # ingest_error \/ raw_id \notin Ids(raw_record)
    /\ UNCHANGED <<raw_record, raw_record_id_seq, processed_record,
                   processed_record_id_seq, device, record_type,
                   record_type_id_seq, handler, responses, error_writes,
                   reprocessed, env>>

NextSchema ==
    \/ \E payload \in SchemaEvents : ReceiveOne(payload, MaxWrites)
    \/ Serve
    \/ \E row \in ProposedFacts : SqlInsertProcessed(row)
    \/ \E raw_id \in 1..MaxWrites : SqlUpsertError(raw_id, "db_error")

SpecSchema == Init /\ [][NextSchema]_vars

\* ------------------------------------ writers that meet at a new type name
\* mutant of uq_record_type_name: the table has no unique constraint on name
uq_record_type_name_missing(name) == {}

\* CONSTRAINT uq_record_type_name UNIQUE (name): the rows an insert of
\* `name` conflicts with
uq_record_type_name(name) == {t \in record_type : t.name = name}

\* INSERT INTO record_type (name) VALUES (name) ON CONFLICT (name) DO NOTHING:
\* the table after it; the id comes from the SERIAL
RecordTypeInsert(name) ==
    IF uq_record_type_name(name) # {} THEN record_type
    ELSE record_type \cup {[id |-> record_type_id_seq + 1, name |-> name]}

\* the same new type from another device, later
NewTypeOtherEvent ==
    [event_type |-> "platform_tilt_deg", device_id |-> 7,
     value |-> 3, timestamp |-> "2024-01-01T00:00:05Z"]

TypeEvents == {NewTypeEvent, NewTypeOtherEvent, TicksEvent, NoTimestampEvent}

\* Resolution of the type by name in its two statements, between which
\* another writer may run: the lookup ...
LookupType(w) ==
    LET h == handler[w]
        known == {t \in record_type : t.name = h.batch[h.idx].event_type}
    IN
    /\ h.pc = "type"
    /\ storage = "up"
    /\ handler' = [handler EXCEPT ![w] =
          IF known # {}
          THEN [h EXCEPT !.pc = "insert",
                         !.type_id = (CHOOSE t \in known : TRUE).id]
          ELSE [h EXCEPT !.pc = "type_insert"]]
    /\ UNCHANGED <<tables, responses, error_writes, reprocessed, env>>

\* ... and, for a name not found, the insert on first sight, after which the
\* row of that name is the writer's type whoever inserted it
InsertType(w) ==
    LET h == handler[w]
        name == h.batch[h.idx].event_type
    IN
    /\ h.pc = "type_insert"
    /\ storage = "up"
    /\ record_type' = RecordTypeInsert(name)
    /\ record_type_id_seq' = record_type_id_seq + 1
    /\ handler' = [handler EXCEPT ![w] =
          [h EXCEPT !.pc = "insert",
                    !.type_id = (CHOOSE t \in record_type' : t.name = name).id]]
    /\ UNCHANGED <<raw_record, raw_record_id_seq, ingest_error,
                   processed_record, processed_record_id_seq, device,
                   responses, error_writes, reprocessed, env>>

NextTypes ==
    \/ \E w \in Workers, payload \in TypeEvents : Receive(w, <<payload>>)
    \/ \E w \in Workers : StoreRaw(w)
    \/ \E w \in Workers : Validate(w)
    \/ \E w \in Workers : ResolveDevice(w)
    \/ \E w \in Workers : LookupType(w)
    \/ \E w \in Workers : InsertType(w)
    \/ \E w \in Workers : InsertProcessed(w)
    \/ \E w \in Workers : Quarantine(w)
    \/ \E w \in Workers : Finish(w)

SpecTypes == Init /\ [][NextTypes]_vars

\* ------------------------------------------- metric_battery_summary
\* a JSON number with a fractional part, written to two places: 80.04 is
\* Decimal(80, 4); and the NUMERIC it is stored as, in units of 1/NumericScale
Decimal(units, hundredths) == [units |-> units, hundredths |-> hundredths]
NumericOfDecimal(value) == value.units * NumericScale + value.hundredths

BatteryLowEvent ==
    [event_type |-> "battery_charge", device_id |-> 42,
     value |-> Decimal(80, 4), timestamp |-> "2024-01-01T00:00:00Z"]
BatteryHighEvent ==
    [event_type |-> "battery_charge", device_id |-> 42,
     value |-> Decimal(80, 6), timestamp |-> "2024-01-01T00:00:05Z"]
BatteryWholeEvent ==
    [event_type |-> "battery_charge", device_id |-> 42,
     value |-> Decimal(79, 0), timestamp |-> "2024-01-01T00:00:10Z"]
BatteryTenthsEvent ==
    [event_type |-> "battery_charge", device_id |-> 42,
     value |-> Decimal(79, 50), timestamp |-> "2024-01-01T00:00:00Z"]
BatteryOtherDeviceEvent ==
    [event_type |-> "battery_charge", device_id |-> 7,
     value |-> Decimal(50, 0), timestamp |-> "2024-01-01T00:00:05Z"]

\* a reading of another type
HeightEvent ==
    [event_type |-> "platform_height_mm", device_id |-> 42,
     value |-> Decimal(120, 0), timestamp |-> "2024-01-01T00:00:10Z"]

BatteryEvents ==
    {BatteryLowEvent, BatteryHighEvent, BatteryWholeEvent, BatteryTenthsEvent,
     BatteryOtherDeviceEvent, HeightEvent, NoTimestampEvent}

\* a / b rounded to the nearest integer, halves away from zero (b > 0)
RoundDiv(a, b) ==
    LET n == IF a >= 0 THEN a ELSE -a
        q == (2 * n + b) \div (2 * b)
    IN IF a >= 0 THEN q ELSE -q

\* (num / den)::numeric(10, places) for places 1 and 2, in units of
\* 1/NumericScale: the cast rounds to that many places
NumericCast(num, den, places) ==
    LET unit == IF places = 1 THEN 10 ELSE 1
    IN RoundDiv(num, den * unit) * unit

\* FROM processed_record pr JOIN record_type rt ON rt.id = pr.type AND
\* rt.name = 'battery_charge'
BatteryJoin ==
    {pair \in processed_record \X record_type :
        pair[2].id = pair[1].type /\ pair[2].name = "battery_charge"}

\* the values and the times of the group of a device
BatteryValues(d) ==
    {[id |-> pair[1].id, value |-> NumericOfDecimal(pair[1].value)] :
        pair \in {x \in BatteryJoin : x[1].device_id = d}}
BatteryTimes(d) ==
    {pair[1].record_time : pair \in {x \in BatteryJoin : x[1].device_id = d}}

MinValue(rows) == CHOOSE v \in {r.value : r \in rows} :
                      \A r \in rows : v <= r.value
MaxValue(rows) == CHOOSE v \in {r.value : r \in rows} :
                      \A r \in rows : v >= r.value
RECURSIVE SumValue(_)
SumValue(rows) ==
    IF rows = {} THEN 0
    ELSE LET r == CHOOSE x \in rows : TRUE
         IN r.value + SumValue(rows \ {r})

\* SELECT pr.device_id, MIN(pr.value)::numeric(10,1) AS min_pct,
\* MAX(pr.value)::numeric(10,1) AS max_pct, AVG(pr.value)::numeric(10,2) AS
\* avg_pct, MAX(pr.record_time) AS last_seen ... GROUP BY pr.device_id
metric_battery_summary ==
    {[device_id |-> d,
      min_pct   |-> NumericCast(MinValue(BatteryValues(d)), 1, 1),
      max_pct   |-> NumericCast(MaxValue(BatteryValues(d)), 1, 1),
      avg_pct   |-> NumericCast(SumValue(BatteryValues(d)),
                                Cardinality(BatteryValues(d)), 2),
      last_seen |-> CHOOSE t \in BatteryTimes(d) :
                        \A u \in BatteryTimes(d) : t >= u] :
        d \in {pair[1].device_id : pair \in BatteryJoin}}

\* SELECT * FROM metric_battery_summary
SelectBatterySummary ==
    /\ AllFree
    /\ result' = [key |-> "metric_battery_summary",
                  rows |-> metric_battery_summary]
    /\ UNCHANGED <<tables, handler, responses, error_writes, reprocessed,
                   storage, web>>

NextBattery ==
    \/ \E payload \in BatteryEvents : ReceiveOne(payload, MaxEvents)
    \/ Serve
    \/ SelectBatterySummary

SpecBattery == Init /\ [][NextBattery]_vars

\* ------------------------------------------------- storage failures
\* The database becomes unreachable and comes back at any moment. A
\* statement issued while it is unreachable fails. A failure after the raw
\* row was stored is a DB error and goes to ingest_error; a failure of the
\* raw insert or of the error upsert itself leaves nothing to write to, and
\* the request fails as a whole.
OutageEvents == {TicksEvent, HugeDeviceEvent, NoTimestampEvent}

Outage ==
    /\ storage = "up"
    /\ storage' = "down"
    /\ UNCHANGED <<tables, handler, responses, error_writes, reprocessed,
                   result, web>>

Recovery ==
    /\ storage = "down"
    /\ storage' = "up"
    /\ UNCHANGED <<tables, handler, responses, error_writes, reprocessed,
                   result, web>>

\* the steps of a handler that are statements sent to the database
Statements == {"raw", "device", "type", "insert", "quarantine"}

\* mutant of StatementFails: every failed statement ends the request
StatementFailsRequest(w) ==
    LET h == handler[w] IN
    /\ storage = "down"
    /\ h.pc \in Statements
    /\ handler' = [handler EXCEPT ![w] = [h EXCEPT !.pc = "failed"]]
    /\ UNCHANGED <<tables, responses, error_writes, reprocessed, env>>

StatementFails(w) ==
    LET h == handler[w] IN
    /\ storage = "down"
    /\ h.pc \in Statements
    /\ handler' = [handler EXCEPT ![w] =
          IF h.pc \in {"raw", "quarantine"}
          THEN [h EXCEPT !.pc = "failed"]
          ELSE [h EXCEPT !.pc = "quarantine", !.reason = "db_error"]]
    /\ UNCHANGED <<tables, responses, error_writes, reprocessed, env>>

\* the request is answered with a server error; the worker is free again
Abort(w) ==
    /\ handler[w].pc = "failed"
    /\ handler' = [handler EXCEPT ![w] = Idle]
    /\ UNCHANGED <<tables, responses, error_writes, reprocessed, env>>

NextOutage ==
    \/ \E payload \in OutageEvents : ReceiveOne(payload, MaxEvents)
    \/ Serve
    \/ StatementFails("w1")
    \/ Abort("w1")
    \/ Outage
    \/ Recovery

SpecOutage == Init /\ [][NextOutage]_vars

\* --------------------------------------------- the quarantine on its own
\* The error quarantine as a component, called with any stored raw id and any
\* failure reason of the validator, the resolver or the writer.
Reasons == {"validation_error", "invalid_provision_token", "db_error"}

RECURSIVE TotalErrorWrites(_)
TotalErrorWrites(ids) ==
    IF ids = {} THEN 0
    ELSE LET r == CHOOSE x \in ids : TRUE
         IN Len(error_writes[r]) + TotalErrorWrites(ids \ {r})

LedgerAppend(payload) ==
    /\ raw_record_id_seq < MaxRaw
    /\ raw_record' = RawRecordInsert(payload)
    /\ raw_record_id_seq' = RawRecordNextId
    /\ UNCHANGED <<ingest_error, processed_record, processed_record_id_seq,
                   device, record_type, record_type_id_seq, handler,
                   responses, error_writes, reprocessed, env>>

QuarantineCall(raw_id, reason) ==
    /\ TotalErrorWrites(DOMAIN error_writes) < MaxErrorWrites
    /\ QuarantineWrite(raw_id, reason)
    /\ UNCHANGED <<raw_record, raw_record_id_seq, processed_record,
                   processed_record_id_seq, device, record_type,
                   record_type_id_seq, handler, responses, reprocessed, env>>

NextQuarantine ==
    \/ \E payload \in Payloads : LedgerAppend(payload)
    \/ \E raw_id \in Ids(raw_record), reason \in Reasons :
          QuarantineCall(raw_id, reason)

SpecQuarantine == Init /\ [][NextQuarantine]_vars

\* ------------------------------------------- the analytics process
\* new Pool({ connectionString: conn, max: 5 })
PoolMax == 5
NewPool(conn) == [connectionString |-> conn, max |-> PoolMax]

\* !conn: the variable is not in the environment, or is empty
Unset == {NULL, ""}

\* mutant of getPool: a pool is constructed at every call
getPoolEveryCall ==
    IF DATABASE_URL \in Unset
    THEN [threw |-> TRUE, error |-> "DATABASE_URL is not set",
          _pool |-> _pool, pools |-> pools]
    ELSE [threw |-> FALSE, error |-> NULL,
          _pool |-> Len(pools) + 1,
          pools |-> Append(pools, NewPool(DATABASE_URL))]

\* getPool(): what the call does to _pool and the pools constructed, and
\* whether it throws; the Pool it returns is the _pool it leaves
getPool ==
    IF _pool # NoPool
    THEN [threw |-> FALSE, error |-> NULL, _pool |-> _pool, pools |-> pools]
    ELSE IF DATABASE_URL \in Unset
    THEN [threw |-> TRUE, error |-> "DATABASE_URL is not set",
          _pool |-> _pool, pools |-> pools]
    ELSE [threw |-> FALSE, error |-> NULL,
          _pool |-> Len(pools) + 1,
          pools |-> Append(pools, NewPool(DATABASE_URL))]

\* pool.query fails while the database cannot be reached
QueryError == "connect ECONNREFUSED"

\* ------------------------------------- GET /api/examples/run?key=...
CuratedKeys ==
    {"counts_by_type", "devices_both_formats", "unified_recent",
     "side_switches"}

\* names every object inherits from Object.prototype; their values are
\* functions
InheritedKeys == {"constructor", "toString"}

\* String(req.query.key || ''): the values the parameter takes here, the
\* empty string also for an absent parameter
RequestKeys == CuratedKeys \cup InheritedKeys \cup {"", "drop_tables"}

\* QUERY_MAP[key] on the object literal: the SQL of a curated key (named by
\* its key here), a member of Object.prototype for an inherited name,
\* undefined otherwise
QUERY_MAP(key) ==
    IF key \in CuratedKeys THEN [type |-> "string", text |-> key]
    ELSE IF key \in InheritedKeys THEN [type |-> "function"]
    ELSE [type |-> "undefined"]

\* !sql
Falsy(value) == value.type = "undefined"

\* the rows of counts_by_type, devices_both_formats and unified_recent (fewer
\* than the LIMIT of 50; the order of the rows is not kept)
counts_by_type ==
    {[type |-> name,
      rows |-> Cardinality({pair \in ExtensionJoin : pair[2].name = name})] :
        name \in {pair[2].name : pair \in ExtensionJoin}}

FormatCount(d, name) ==
    Cardinality({pair \in ExtensionJoin :
                    pair[1].device_id = d /\ pair[2].name = name})

devices_both_formats ==
    {[device_id    |-> d,
      new_mm       |-> FormatCount(d, "platform_extension_mm"),
      legacy_ticks |-> FormatCount(d, "platform_extension_ticks")] :
        d \in {d \in {pair[1].device_id : pair \in ExtensionJoin} :
                  /\ FormatCount(d, "platform_extension_mm") > 0
                  /\ FormatCount(d, "platform_extension_ticks") > 0}}

unified_recent ==
    {[device_id    |-> pair[1].device_id,
      record_time  |-> pair[1].record_time,
      source_type  |-> pair[2].name,
      source_value |-> Numeric(pair[1].value),
      extension_mm |-> ExtensionMm(pair[2].name, pair[1].value)] :
        pair \in ExtensionJoin}

\* the answers the database may give to the SQL of a curated key
QueryRows(key) ==
    CASE key = "counts_by_type"       -> {counts_by_type}
      [] key = "devices_both_formats" -> {devices_both_formats}
      [] key = "unified_recent"       -> {unified_recent}
      [] key = "side_switches"        ->
            {side_switches(SideSeries(order)) : order \in WindowOrders}

\* the handler of run.ts, from the request to the response; besides the
\* response the result keeps whether getPool and pool.query were called
RunExample(key) ==
    LET sql == QUERY_MAP(key)
        got == getPool
    IN
    /\ AllFree
    /\ IF Falsy(sql)
       THEN /\ result' = [key |-> "examples/run", param |-> key,
                          status |-> 400,
                          body |-> [error |-> "invalid_query_key"],
                          got_pool |-> FALSE, pool |-> NoPool,
                          queried |-> FALSE]
            /\ UNCHANGED <<_pool, pools>>
       ELSE /\ _pool' = got._pool
            /\ pools' = got.pools
            /\ IF got.threw
               THEN result' = [key |-> "examples/run", param |-> key,
                               status |-> 500,
                               body |-> [error |-> got.error],
                               got_pool |-> TRUE, pool |-> NoPool,
                               queried |-> FALSE]
               ELSE IF sql.type # "string"
               THEN result' = [key |-> "examples/run", param |-> key,
                               status |-> 500,
                               body |-> [error |-> "not a query text"],
                               got_pool |-> TRUE, pool |-> got._pool,
                               queried |-> TRUE]
               ELSE IF storage = "down"
               THEN result' = [key |-> "examples/run", param |-> key,
                               status |-> 500,
                               body |-> [error |-> QueryError],
                               got_pool |-> TRUE, pool |-> got._pool,
                               queried |-> TRUE]
               ELSE \E rows \in QueryRows(key) :
                       result' = [key |-> "examples/run", param |-> key,
                                  status |-> 200,
                                  body |-> [sql |-> sql.text, rows |-> rows],
                                  got_pool |-> TRUE, pool |-> got._pool,
                               queried |-> TRUE]
    /\ UNCHANGED <<tables, handler, responses, error_writes, reprocessed,
                   storage, DATABASE_URL, mounted, polls, shown>>

\* ----------------------------------- GET /api/metrics/avg-extension-mm
RECURSIVE SumExtensionMm(_)
SumExtensionMm(pairs) ==
    IF pairs = {} THEN 0
    ELSE LET pair == CHOOSE x \in pairs : TRUE
         IN ExtensionMm(pair[2].name, pair[1].value)
            + SumExtensionMm(pairs \ {pair})

\* the digits numeric(10,3) keeps beyond those of NumericScale
ThirdPlace == 10

\* SELECT device_id, AVG(extension_mm)::numeric(10,3) AS avg_extension_mm
\* FROM v_platform_extension_mm GROUP BY device_id; the average is in
\* thousandths
metric_avg_extension_mm ==
    {[device_id |-> d,
      avg_extension_mm |->
          LET pairs == {pair \in ExtensionJoin : pair[1].device_id = d}
          IN RoundDiv(SumExtensionMm(pairs) * ThirdPlace,
                      Cardinality(pairs))] :
        d \in {pair[1].device_id : pair \in ExtensionJoin}}

\* the handler of avg-extension-mm.ts, from the request to the response
GetAvgExtension ==
    LET got == getPool IN
    /\ AllFree
    /\ _pool' = got._pool
    /\ pools' = got.pools
    /\ IF got.threw
       THEN result' = [key |-> "metrics/avg-extension-mm", status |-> 500,
                       body |-> [error |-> got.error], pool |-> NoPool]
       ELSE IF storage = "down"
       THEN result' = [key |-> "metrics/avg-extension-mm", status |-> 500,
                       body |-> [error |-> QueryError], pool |-> got._pool]
       ELSE result' = [key |-> "metrics/avg-extension-mm", status |-> 200,
                       body |-> metric_avg_extension_mm, pool |-> got._pool]
    /\ UNCHANGED <<tables, handler, responses, error_writes, reprocessed,
                   storage, DATABASE_URL, mounted, polls, shown>>

\* the analytics process is started with or without DATABASE_URL
InitAnalytics ==
    /\ raw_record = {}
    /\ raw_record_id_seq = 0
    /\ ingest_error = {}
    /\ processed_record = {}
    /\ processed_record_id_seq = 0
    /\ device = {}
    /\ record_type = SeedRecordTypes
    /\ record_type_id_seq = 4
    /\ handler = [w \in Workers |-> Idle]
    /\ responses = {}
    /\ error_writes = <<>>
    /\ reprocessed = 0
    /\ storage = "up"
    /\ result = NoResult
    /\ DATABASE_URL \in {"postgres://db"} \cup Unset
    /\ _pool = NoPool
    /\ pools = <<>>
    /\ mounted = "no"
    /\ polls = <<>>
    /\ shown = [table \in TableNames |-> NoPoll]

ExampleEvents == {TicksEvent, MmEvent, OtherDeviceMmEvent, NoTimestampEvent}

NextAnalytics ==
    \/ \E payload \in ExampleEvents : ReceiveOne(payload, MaxWrites)
    \/ Serve
    \/ \E key \in RequestKeys : RunExample(key)
    \/ GetAvgExtension
    \/ Outage
    \/ Recovery

SpecAnalytics == InitAnalytics /\ [][NextAnalytics]_vars

\* ------------------------------------------ the dashboard (index.tsx)
\* Home polls the four metrics routes. A poll is one call of loadAll: it
\* awaits its four fetches in turn and hands the rows of each to the table's
\* setter. Nothing bounds how long a fetch takes. A poll is written as the
\* number of the fetch it awaits.
MaxPolls == 3

Fetches == Len(Tables)
Finished == Fetches + 1
Thrown == 0

\* loadAll() up to its first await
StartPoll == Append(polls, [fetch |-> 1])

\* useEffect on mount: loadAll(); const t = setInterval(loadAll, 3000)
Mount ==
    /\ mounted = "no"
    /\ mounted' = "yes"
    /\ polls' = StartPoll
    /\ UNCHANGED <<tables, handler, responses, error_writes, reprocessed,
                   storage, result, DATABASE_URL, _pool, pools, shown>>

\* the interval fires: loadAll is called whatever earlier calls are doing
Tick ==
    /\ mounted = "yes"
    /\ Len(polls) < MaxPolls
    /\ polls' = StartPoll
    /\ UNCHANGED <<tables, handler, responses, error_writes, reprocessed,
                   storage, result, DATABASE_URL, _pool, pools, mounted,
                   shown>>

\* setAvg(...), setExret(...), setBattery(...), setHeight(...) called by
\* poll p: the table shows the rows of that poll; an unmounted component
\* takes no state update
SetRows(p, table) ==
    IF mounted = "yes" THEN [shown EXCEPT ![table] = p] ELSE shown

\* the fetch poll p awaits is answered with res.ok: the setter is called
\* with its rows, and the poll goes on to its next fetch or returns
Respond(p) ==
    LET i == polls[p].fetch IN
    /\ i \in 1..Fetches
    /\ shown' = SetRows(p, Tables[i])
    /\ polls' = [polls EXCEPT ![p].fetch = i + 1]
    /\ UNCHANGED <<tables, handler, responses, error_writes, reprocessed,
                   storage, result, DATABASE_URL, _pool, pools, mounted>>

\* the fetch poll p awaits is answered without res.ok, or not at all:
\* fetchJson throws and loadAll ends there
Fail(p) ==
    /\ polls[p].fetch \in 1..Fetches
    /\ polls' = [polls EXCEPT ![p].fetch = Thrown]
    /\ UNCHANGED <<tables, handler, responses, error_writes, reprocessed,
                   storage, result, DATABASE_URL, _pool, pools, mounted,
                   shown>>

\* the cleanup of the effect: clearInterval(t)
Unmount ==
    /\ mounted = "yes"
    /\ mounted' = "gone"
    /\ UNCHANGED <<tables, handler, responses, error_writes, reprocessed,
                   storage, result, DATABASE_URL, _pool, pools, polls,
                   shown>>

NextDashboard ==
    \/ Mount
    \/ Tick
    \/ \E p \in DOMAIN polls : Respond(p)
    \/ \E p \in DOMAIN polls : Fail(p)
    \/ Unmount

SpecDashboard == Init /\ [][NextDashboard]_vars

\* ================================================================= claims
HasFact(raw_id) == \E q \in processed_record : q.raw_data_id = raw_id
HasError(raw_id) == \E e \in ingest_error : e.raw_data_id = raw_id
\* processing of the raw payload has completed at least once
Answered_(raw_id) == \E resp \in responses : resp.raw_id = raw_id
AllIdle == \A w \in Workers : handler[w].pc = "idle"

TypeName(type_id) == (CHOOSE t \in record_type : t.id = type_id).name

\* the facts that record the logical event of a valid telemetry payload
FactsOfEvent(payload) ==
    {q \in processed_record :
        /\ q.device_id = payload.device_id
        /\ TypeName(q.type) = payload.event_type
        /\ q.record_time = ParseTimestamp(payload.timestamp)
        /\ q.value = payload.value}

\* two valid telemetry payloads that name the same logical event
SameEvent(p1, p2) ==
    /\ p1.device_id = p2.device_id
    /\ p1.event_type = p2.event_type
    /\ ParseTimestamp(p1.timestamp) = ParseTimestamp(p2.timestamp)
    /\ p1.value = p2.value

ValidTelemetry(payload) ==
    ~IsStartup(payload) /\ ValidateMessage(payload) = "ok"
ValidStartup(payload) ==
    IsStartup(payload) /\ ValidateMessage(payload) = "ok"

C2_NeverNeither ==
    \A row \in raw_record :
        Answered_(row.id) => HasFact(row.id) \/ HasError(row.id)

\* C2 amended: once processing of its payload has completed, a RawRecord has
\* a ProcessedRecord or an IngestError referring to it, unless it holds a
\* validated startup event (which writes no fact) or a telemetry event whose
\* fact already exists under another RawRecord (suppressed by the logical
\* key); those two have neither.
C2_NeverNeitherButDuplicateOrStartup ==
    \A row \in raw_record :
        Answered_(row.id) =>
            \/ HasFact(row.id)
            \/ HasError(row.id)
            \/ ValidStartup(row.raw_message)
            \/ /\ ValidTelemetry(row.raw_message)
               /\ FactsOfEvent(row.raw_message) # {}

\* a telemetry event answered as a suppressed duplicate: its fact belongs to
\* an earlier raw row, and it has neither a fact nor an error of its own
C2_Witness ==
    /\ AllIdle
    /\ \E a, b \in raw_record :
          /\ a.id < b.id
          /\ ValidTelemetry(a.raw_message) /\ ValidTelemetry(b.raw_message)
          /\ HasFact(a.id)
          /\ Answered_(b.id) /\ ~HasFact(b.id) /\ ~HasError(b.id)

\* C3: in every reachable state at most one ProcessedRecord refers to any
\* one raw_record row, however often and however concurrently that row is
\* processed.
C3_OneFactPerRaw ==
    \A p, q \in processed_record : p.raw_data_id = q.raw_data_id => p = q

\* a raw payload with a fact has been processed a second time to the end
C3_Witness ==
    /\ AllIdle
    /\ reprocessed > 0
    /\ \E q \in processed_record :
          Response(q.raw_data_id, NoId, "ok") \in responses

\* C4: in every reachable state at most one ProcessedRecord exists per
\* (device_id, type, record_time, value); two raw rows that carry the same
\* logical event, both processed, are two RawRecords with exactly one
\* ProcessedRecord between them.
C4_OneFactPerEvent ==
    /\ \A p, q \in processed_record :
          (/\ p.device_id = q.device_id /\ p.type = q.type
           /\ p.record_time = q.record_time /\ p.value = q.value) => p = q
    /\ \A a, b \in raw_record :
          (/\ a.id # b.id
           /\ Answered_(a.id) /\ Answered_(b.id)
           /\ ValidTelemetry(a.raw_message) /\ ValidTelemetry(b.raw_message)
           /\ SameEvent(a.raw_message, b.raw_message))
          => Cardinality(FactsOfEvent(a.raw_message)) = 1

\* the identical payload twice, and the same event under two different
\* payload texts: each pair processed, one fact
C4_Witness ==
    /\ AllIdle
    /\ \E a, b \in raw_record :
          /\ a.id # b.id
          /\ a.raw_message = TicksEvent
          /\ b.raw_message = TicksEventZoned
          /\ Answered_(a.id) /\ Answered_(b.id)
          /\ Cardinality(processed_record) = 1

\* the answers that carry a new fact id
Created == {resp \in responses : resp.processed_id # NoId}

\* C5: when handlers, each with its own raw row, race to insert the same
\* logical event, under every interleaving exactly one answer carries a new
\* fact id, every other answer is a duplicate (ok, no id), none ends as a
\* database error, and exactly one fact of the event exists.
C5_RaceOneCreated ==
    \A resp \in responses :
        LET payload == RawMessage(resp.raw_id) IN
        ValidTelemetry(payload) =>
            /\ resp.status = "ok"
            /\ ~HasError(resp.raw_id)
            /\ Cardinality({c \in Created :
                               SameEvent(RawMessage(c.raw_id), payload)}) = 1
            /\ Cardinality(FactsOfEvent(payload)) = 1

\* both handlers are done with the same event under different raw rows, and
\* the one whose raw row was stored later inserted the fact first: the two
\* overlapped
C5_Witness ==
    LET h1 == handler["w1"]
        h2 == handler["w2"]
    IN
    /\ h1.pc = "done" /\ h2.pc = "done"
    /\ h1.mode = "request" /\ h2.mode = "request"
    /\ Len(h1.batch) = 1 /\ Len(h2.batch) = 1
    /\ ValidTelemetry(h1.batch[1]) /\ ValidTelemetry(h2.batch[1])
    /\ SameEvent(h1.batch[1], h2.batch[1])
    /\ h1.raw_id < h2.raw_id
    /\ h1.out[1].processed_id = NoId
    /\ h2.out[1].processed_id # NoId

\* C6: a duplicate-suppressed insert is a success: every answer for a valid
\* telemetry payload has status "ok", a null processed_id only when the fact
\* of its event is already stored, and no ingest_error row is written for
\* its raw row; every answer for an invalid payload has status "invalid",
\* so the two are told apart.
C6_DuplicateIsSuccess ==
    \A resp \in responses :
        LET payload == RawMessage(resp.raw_id) IN
        /\ ValidTelemetry(payload) =>
              /\ resp.status = "ok"
              /\ ~HasError(resp.raw_id)
              /\ resp.processed_id = NoId => FactsOfEvent(payload) # {}
        /\ ValidateMessage(payload) # "ok" => resp.status = "invalid"

\* a duplicate answer (ok, null id) next to an invalid one
C6_Witness ==
    /\ AllIdle
    /\ \E dup, bad \in responses :
          /\ ValidTelemetry(RawMessage(dup.raw_id))
          /\ dup.status = "ok" /\ dup.processed_id = NoId
          /\ bad.status = "invalid"

InFlight == {"validate", "device", "type", "insert", "quarantine"}

\* C7: the raw_record insert of an element comes before its validation,
\* device resolution, fact insert and error upsert: a handler past the first
\* step has its raw row stored with the element as payload, every fact,
\* error and answer names a stored raw row, and a finished request has left
\* one raw row per element, whatever the outcome.
C7_RawFirst ==
    /\ \A w \in Workers :
          handler[w].pc \in InFlight =>
              [id |-> handler[w].raw_id,
               raw_message |-> handler[w].batch[handler[w].idx]] \in raw_record
    /\ \A q \in processed_record : q.raw_data_id \in Ids(raw_record)
    /\ \A e \in ingest_error : e.raw_data_id \in Ids(raw_record)
    /\ \A resp \in responses : resp.raw_id \in Ids(raw_record)
    /\ \A w \in Workers :
          (handler[w].pc = "done" /\ handler[w].mode = "request") =>
              \A i \in 1..Len(handler[w].batch) :
                  /\ i <= Len(handler[w].out)
                  /\ [id |-> handler[w].out[i].raw_id,
                      raw_message |-> handler[w].batch[i]] \in raw_record

\* a batch of two has ended, and a created fact and an invalid element are
\* among the answers given so far, each for a stored raw row
C7_Witness ==
    /\ \E w \in Workers : handler[w].pc = "done" /\ Len(handler[w].batch) = 2
    /\ \E resp \in responses : resp.status = "invalid"
    /\ \E resp \in responses : resp.status = "ok" /\ resp.processed_id # NoId
    /\ ingest_error # {} /\ processed_record # {}

\* C8: the raw ledger is append-only. A step never changes or removes a
\* raw_record row; the step that stores an element adds exactly one row,
\* with the element as payload and an id above every earlier id; no other
\* step (validation, resolution, fact insert, duplicate suppression, error
\* upsert, re-processing) adds one.
C8_RawAppendOnly ==
    [][/\ raw_record \subseteq raw_record'
       /\ \A w \in Workers :
             (handler[w].pc = "raw" /\ handler'[w].pc # "raw") =>
                 /\ Cardinality(raw_record' \ raw_record) = 1
                 /\ \A new \in raw_record' \ raw_record :
                       /\ new.raw_message = handler[w].batch[handler[w].idx]
                       /\ new.id = handler'[w].raw_id
                       /\ \A old \in raw_record : new.id > old.id
       /\ (\A w \in Workers :
               handler[w].pc = "raw" => handler'[w].pc = "raw")
             => raw_record' = raw_record]_vars

\* two raw rows are stored, and facts, errors, a duplicate answer and a
\* re-processing have come after them
C8_Witness ==
    /\ AllIdle
    /\ Cardinality(raw_record) = 2
    /\ reprocessed > 0
    /\ processed_record # {}
    /\ ingest_error # {}

\* C9: the elements of a batch are processed independently. When a request
\* has ended, every element, before or after an element that failed
\* validation or authentication, has its own raw row and its own answer:
\* "invalid" with an ingest_error row if it fails, "ok" if it is valid, and
\* the fact of a valid telemetry element is stored.
C9_BatchIndependent ==
    \A w \in Workers :
        LET h == handler[w] IN
        (h.pc = "done" /\ h.mode = "request") =>
            /\ Len(h.out) = Len(h.batch)
            /\ \A i, j \in 1..Len(h.out) :
                  h.out[i].raw_id = h.out[j].raw_id => i = j
            /\ \A i \in 1..Len(h.out) :
                  /\ [id |-> h.out[i].raw_id, raw_message |-> h.batch[i]]
                        \in raw_record
                  /\ IF ValidateMessage(h.batch[i]) = "ok"
                     THEN h.out[i].status = "ok"
                     ELSE /\ h.out[i].status = "invalid"
                          /\ HasError(h.out[i].raw_id)
                  /\ ValidTelemetry(h.batch[i]) =>
                        FactsOfEvent(h.batch[i]) # {}

\* a batch whose first element has no timestamp and whose second is valid:
\* the first is answered invalid, the second gets its fact
C9_Witness ==
    \E w \in Workers :
        LET h == handler[w] IN
        /\ h.pc = "done"
        /\ h.batch = <<NoTimestampEvent, TicksEvent>>
        /\ h.out[1].status = "invalid"
        /\ h.out[2].status = "ok" /\ h.out[2].processed_id # NoId
        /\ HasFact(h.out[2].raw_id)

\* the latest reason written for a raw id
LastWritten(raw_id) == error_writes[raw_id][Len(error_writes[raw_id])]

\* C10: the quarantine is an upsert keyed by the raw id. After any sequence
\* of quarantine writes at most one ingest_error row exists per raw row, a
\* raw id has a row exactly if something was written for it, and the row's
\* reason is the reason of the latest write for that id; a write for one raw
\* id leaves the rows of every other raw id as they were.
C10_LastReasonWins ==
    /\ \A e1, e2 \in ingest_error :
          e1.raw_data_id = e2.raw_data_id => e1 = e2
    /\ \A e \in ingest_error :
          /\ e.raw_data_id \in DOMAIN error_writes
          /\ e.error = LastWritten(e.raw_data_id)
    /\ \A raw_id \in DOMAIN error_writes : HasError(raw_id)

\* a raw id written twice with different reasons, beside the row of another
\* raw id
C10_Witness ==
    \E a, b \in DOMAIN error_writes :
        /\ a # b
        /\ Len(error_writes[a]) = 2
        /\ error_writes[a][1] # error_writes[a][2]
        /\ Len(error_writes[b]) = 1
        /\ HasError(a) /\ HasError(b)

\* the element a busy handler is working on, and its verdict
Busy(w) == handler[w].pc \notin {"idle", "done"}
Current(w) == handler[w].batch[handler[w].idx]
ErrorsOf(raw_id) == {e \in ingest_error : e.raw_data_id = raw_id}

\* a payload that lacks a required field of its schema, and a complete
\* startup payload whose token is not the HMAC of its serial
MissesField(payload) ==
    IF IsStartup(payload) THEN ~(StartupFields \subseteq DOMAIN payload)
    ELSE ~(TelemetryFields \subseteq DOMAIN payload)
TokenMismatch(payload) ==
    /\ IsStartup(payload) /\ ~MissesField(payload)
    /\ payload.provision_token # Hmac(payload.serial)

C11_Outcome ==
    \A resp \in responses :
        MissesField(RawMessage(resp.raw_id)) =>
            /\ resp.status = "invalid" /\ resp.processed_id = NoId
            /\ Cardinality({row \in raw_record : row.id = resp.raw_id}) = 1
            /\ ErrorsOf(resp.raw_id) =
                  {[raw_data_id |-> resp.raw_id, error |-> "validation_error"]}
            /\ ~HasFact(resp.raw_id)

C11_Step ==
    \A w \in Workers :
        (/\ Busy(w) /\ handler'[w] # handler[w]
         /\ MissesField(Current(w)))
        => /\ device' = device
           /\ record_type' = record_type
           /\ processed_record' = processed_record

\* C11: an element that fails structural validation is answered "invalid"
\* and has one raw_record row, one ingest_error row (with the validation
\* reason) and no fact; no step of its processing adds or changes a device,
\* record_type or processed_record row.
C11_StructurallyInvalid == []C11_Outcome /\ [][C11_Step]_vars

\* an event without timestamp is the only thing ingested so far and has been
\* answered: one raw row, one error row, nothing else
C11_Witness ==
    /\ AllIdle
    /\ raw_record = {[id |-> 1, raw_message |-> NoTimestampEvent]}
    /\ Response(1, NoId, "invalid") \in responses
    /\ ingest_error = {[raw_data_id |-> 1, error |-> "validation_error"]}
    /\ processed_record = {} /\ device = {} /\ record_type = SeedRecordTypes

C12_Outcome ==
    /\ \A resp \in responses :
          TokenMismatch(RawMessage(resp.raw_id)) =>
              /\ resp.status = "invalid" /\ resp.processed_id = NoId
              /\ ErrorsOf(resp.raw_id) =
                    {[raw_data_id |-> resp.raw_id,
                      error |-> "invalid_provision_token"]}
              /\ ~HasFact(resp.raw_id)
    /\ \A e \in ingest_error :
          e.error = "invalid_provision_token" <=>
              TokenMismatch(RawMessage(e.raw_data_id))

C12_Step ==
    \A w \in Workers :
        (/\ Busy(w) /\ handler'[w] # handler[w]
         /\ TokenMismatch(Current(w)))
        => device' = device

\* C12: a startup event whose provision_token does not verify is answered
\* "invalid" and its ingest_error row carries the authentication reason
\* invalid_provision_token, which no structurally invalid element ever gets;
\* no step of its processing adds or changes a device row.
C12_TamperedToken == []C12_Outcome /\ [][C12_Step]_vars

\* a valid startup provisioned the device, then a tampered startup for the
\* same serial was answered invalid: the device row is as the first left it
C12_Witness ==
    /\ AllIdle
    /\ raw_record = {[id |-> 1, raw_message |-> StartupEvent],
                     [id |-> 2, raw_message |-> TamperedStartupEvent]}
    /\ Response(2, NoId, "invalid") \in responses
    /\ ingest_error = {[raw_data_id |-> 2, error |-> "invalid_provision_token"]}
    /\ device = {[id |-> 7, name |-> "ABC123", init_date |-> 0]}

\* the placeholder row of a numeric device id
Placeholder(id) == [id |-> id, name |-> IdText(id), init_date |-> NoDate]

\* the device-resolution step of a telemetry element: found, or created as
\* a placeholder, and on to the next step with the id resolved
ResolvedAsClaimed(w) ==
    LET id == Current(w).device_id IN
    /\ handler'[w].pc = "type" /\ handler'[w].device_id = id
    /\ IF id \in Ids(device) THEN device' = device
       ELSE device' = device \cup {Placeholder(id)}

AtTelemetryResolution(w) ==
    /\ handler[w].pc = "device" /\ handler'[w] # handler[w]
    /\ ~IsStartup(Current(w))

ResolvedTo(id) ==
    {row \in raw_record :
        /\ \E resp \in responses : resp.raw_id = row.id /\ resp.status = "ok"
        /\ IF IsStartup(row.raw_message)
           THEN SerialToId(row.raw_message.serial) = id
           ELSE row.raw_message.device_id = id}

\* init_date as the event that created the device row recorded it
FirstInitDate(id) ==
    LET first == CHOOSE row \in ResolvedTo(id) :
                    \A other \in ResolvedTo(id) : row.id <= other.id
    IN IF IsStartup(first.raw_message)
       THEN ParseTimestamp(first.raw_message.timestamp)
       ELSE NoDate

C14_Outcome ==
    /\ \A resp \in responses :
          LET payload == RawMessage(resp.raw_id) IN
          (IsStartup(payload) /\ ~MissesField(payload) /\ ~TokenMismatch(payload))
          => LET id == SerialToId(payload.serial)
                 rows == {d \in device : d.id = id}
             IN /\ resp.status = "ok"
                /\ Cardinality(rows) = 1
                /\ \A d \in rows :
                      d.name = payload.serial /\ d.init_date = FirstInitDate(id)
    /\ \A w \in Workers :
          (handler[w].pc = "done" /\ IsStartup(handler[w].batch[1])
             /\ handler[w].out[1].status = "ok")
          => handler[w].device_id = SerialToId(handler[w].batch[1].serial)

C14_Step ==
    \A d \in device : \E e \in device' : e.id = d.id /\ e.init_date = d.init_date

\* C14: startup provisioning is idempotent per serial. Every valid startup
\* event resolves to the id its serial maps to; however many there were,
\* one device row has that id, named by the serial, and its init_date is
\* the one recorded when the row was created; no step ever changes the
\* init_date of a device row or removes one.
C14_StartupIdempotent == []C14_Outcome /\ [][C14_Step]_vars

\* three valid startups of one serial, the later two with a later
\* timestamp: one row, with the first timestamp
C14_Witness ==
    /\ AllIdle
    /\ {row.raw_message : row \in raw_record} = {StartupEvent, StartupEventAgain}
    /\ raw_record_id_seq = 3
    /\ RawMessage(1) = StartupEvent
    /\ Cardinality({resp \in responses : resp.status = "ok"}) = 3
    /\ device = {[id |-> 7, name |-> "ABC123", init_date |-> 0]}

\* a step in which a statement of handler w meets a storage failure: the
\* database is unreachable, or it refuses a device id beyond INT
StorageFails(w) ==
    /\ handler'[w] # handler[w]
    /\ \/ storage = "down" /\ handler[w].pc \in Statements
       \/ /\ handler[w].pc = "device" /\ ~IsStartup(Current(w))
          /\ Current(w).device_id > IntMax

NoDbErrorQuarantined ==
    /\ \A e \in ingest_error : e.error # "db_error"
    /\ \A resp \in responses :
          resp.status = "invalid" =>
              (MissesField(RawMessage(resp.raw_id))
                  \/ TokenMismatch(RawMessage(resp.raw_id)))

DbErrorQuarantined ==
    \A resp \in responses :
        LET payload == RawMessage(resp.raw_id) IN
        (resp.status = "invalid" /\ ~MissesField(payload)
            /\ ~TokenMismatch(payload))
        => /\ ErrorsOf(resp.raw_id) =
                 {[raw_data_id |-> resp.raw_id, error |-> "db_error"]}
           /\ ~HasFact(resp.raw_id)

FailureStep ==
    \A w \in Workers :
        StorageFails(w) =>
            /\ UNCHANGED tables
            /\ responses' = responses
            /\ IF handler[w].pc \in {"raw", "quarantine"}
               THEN handler'[w].pc = "failed"
               ELSE /\ handler'[w].pc = "quarantine"
                    /\ handler'[w].reason = "db_error"
                    /\ handler'[w].raw_id = handler[w].raw_id

C16_Stored ==
    \A pr \in processed_record :
        /\ pr.value = RawMessage(pr.raw_data_id).value
        /\ TypeName(pr.type) = RawMessage(pr.raw_data_id).event_type

C16_Step == \A pr \in processed_record : pr \in processed_record'

C16_StoredUnconverted == []C16_Stored /\ [][C16_Step]_vars

\* a ticks fact stored as 100 after the view has been read and has shown it as
\* 5.00 mm
C16_Witness ==
    /\ \E pr \in processed_record :
          /\ TypeName(pr.type) = "platform_extension_ticks"
          /\ pr.value = 100
    /\ result.key = "v_platform_extension_mm"
    /\ \E row \in BagToSet(result.rows) : row.extension_mm = Numeric(5)

\* the facts of the two platform-extension types
ExtensionFacts ==
    {pr \in processed_record : 
        TypeName(pr.type) \in {"platform_extension_mm",
                              "platform_extension_ticks"}}

\* `row` is what the Unification View is to show for the fact pr: its device,
\* its time, and its value in millimetres (twenty ticks to the millimetre)
ShowsFact(row, pr) ==
    /\ row.device_id = pr.device_id
    /\ row.observed_at = pr.record_time
    /\ IF TypeName(pr.type) = "platform_extension_mm"
       THEN row.extension_mm = pr.value * NumericScale
       ELSE row.extension_mm * 20 = pr.value * NumericScale

\* C17: a read of the Unification View returns exactly one row per
\* ProcessedRecord of type platform_extension_mm or platform_extension_ticks
\* and no row for a fact of any other type; the row carries the fact's device
\* and time, and extension_mm is value for the millimetre type and
\* value / 20.0 for the ticks type.
C17_UnificationView ==
    result.key = "v_platform_extension_mm" =>
        /\ BagCardinality(result.rows) = Cardinality(ExtensionFacts)
        /\ \A row \in BagToSet(result.rows) :
              CopiesIn(row, result.rows) =
                 Cardinality({pr \in ExtensionFacts : ShowsFact(row, pr)})

\* Scenario A with a battery reading beside it: 100 ticks of device 42 are
\* read as 5.00 mm at that timestamp, and the battery fact has no row
C17_Witness ==
    /\ result.key = "v_platform_extension_mm"
    /\ \E pr \in processed_record :
          /\ TypeName(pr.type) = "platform_extension_ticks"
          /\ pr.device_id = 42 /\ pr.value = 100 /\ pr.record_time = 0
    /\ \E pr \in processed_record : TypeName(pr.type) = "battery_charge"
    /\ CopiesIn([device_id |-> 42, observed_at |-> 0,
                 extension_mm |-> Numeric(5)], result.rows) = 1
    /\ BagCardinality(result.rows) = 1

\* the rows a read of the Unification View returned for a device and a time
RowsAt(device_id, observed_at) ==
    {row \in BagToSet(result.rows) :
        row.device_id = device_id /\ row.observed_at = observed_at}

\* pr is the only platform-extension fact of its device at its time
OnlyReadingAtItsTime(pr) ==
    \A other \in ExtensionFacts :
        other.device_id = pr.device_id /\ other.record_time = pr.record_time
            => other = pr

\* a device reported `ticks` ticks at one time and the same extension in
\* millimetres (ticks / 20) at another, and nothing else at those two times
EquivalentReadings(t, m) ==
    /\ TypeName(t.type) = "platform_extension_ticks"
    /\ TypeName(m.type) = "platform_extension_mm"
    /\ t.device_id = m.device_id
    /\ t.record_time # m.record_time
    /\ m.value * 20 = t.value
    /\ OnlyReadingAtItsTime(t)
    /\ OnlyReadingAtItsTime(m)

\* C18: unit equivalence. When a device reported T ticks at one timestamp
\* and T / 20 millimetres at another, a read of the Unification View returns
\* one row for each of the two timestamps, and the two rows have equal
\* extension_mm.
C18_UnitEquivalence ==
    result.key = "v_platform_extension_mm" =>
        \A t, m \in ExtensionFacts :
            EquivalentReadings(t, m) =>
                \E rt \in RowsAt(t.device_id, t.record_time) :
                \E rm \in RowsAt(m.device_id, m.record_time) :
                    /\ RowsAt(t.device_id, t.record_time) = {rt}
                    /\ RowsAt(m.device_id, m.record_time) = {rm}
                    /\ CopiesIn(rt, result.rows) = 1
                    /\ CopiesIn(rm, result.rows) = 1
                    /\ rt.extension_mm = rm.extension_mm

\* -40 ticks and -2 mm of one device, five seconds apart, read through the view
C18_Witness ==
    /\ result.key = "v_platform_extension_mm"
    /\ \E t, m \in ExtensionFacts :
          /\ EquivalentReadings(t, m)
          /\ t.value = -40
          /\ m.value = -2
    /\ BagCardinality(result.rows) = 2

\* The readings a query over the Unification View worked on, in the order
\* its window saw them: every row of the view once, and the rows of one device
\* in the order of observed_at.
ReadingsInOrder(series) ==
    /\ Len(series) = BagCardinality(v_platform_extension_mm)
    /\ \A row \in BagToSet(v_platform_extension_mm) :
          CopiesIn(row, v_platform_extension_mm) =
             Cardinality({i \in DOMAIN series :
                             /\ series[i].device_id = row.device_id
                             /\ series[i].observed_at = row.observed_at
                             /\ series[i].extension_mm = row.extension_mm})
    /\ \A i, j \in DOMAIN series :
          i < j /\ series[i].device_id = series[j].device_id
             => series[i].observed_at <= series[j].observed_at

ReadingsOf(series, d) == {i \in DOMAIN series : series[i].device_id = d}

\* the readings of a device that have one before them, and the one
\* immediately before
Earlier(series, i) == {j \in ReadingsOf(series, series[i].device_id) : j < i}
Preceding(series, i) ==
    CHOOSE j \in Earlier(series, i) : \A k \in Earlier(series, i) : k <= j

Rises(series, d) ==
    {i \in ReadingsOf(series, d) :
        /\ Earlier(series, i) # {}
        /\ series[i].extension_mm > series[Preceding(series, i)].extension_mm}
Falls(series, d) ==
    {i \in ReadingsOf(series, d) :
        /\ Earlier(series, i) # {}
        /\ series[i].extension_mm < series[Preceding(series, i)].extension_mm}

\* C19: a read of metric_extension_vs_retraction returns one row for each
\* device that has unified readings and none for others; with the device's
\* readings ordered by observed_at, extensions is the number of readings
\* strictly greater than the reading immediately before and retractions the
\* number strictly smaller, so that a first reading and a reading equal to the
\* one before count as neither and extensions + retractions is at most the
\* number of readings less one.
C19_ExtensionVsRetraction ==
    result.key = "metric_extension_vs_retraction" =>
        LET series == result.series IN
        /\ ReadingsInOrder(series)
        /\ \A row \in result.rows : ReadingsOf(series, row.device_id) # {}
        /\ \A i \in DOMAIN series :
              LET d == series[i].device_id
                  counts == {row \in result.rows : row.device_id = d}
              IN /\ Cardinality(counts) = 1
                 /\ \A row \in counts :
                       /\ row.extensions = Cardinality(Rises(series, d))
                       /\ row.retractions = Cardinality(Falls(series, d))
                       /\ row.extensions + row.retractions
                             <= Cardinality(ReadingsOf(series, d)) - 1

\* 100 ticks, then 5 mm (the same extension), then 10 ticks (half a
\* millimetre): no extension, one retraction, three readings
C19_Witness ==
    /\ result.key = "metric_extension_vs_retraction"
    /\ Len(result.series) = 3
    /\ result.series[1].extension_mm = Numeric(5)
    /\ result.series[2].extension_mm = Numeric(5)
    /\ result.series[2].observed_at > result.series[1].observed_at
    /\ result.series[3].extension_mm < Numeric(5)
    /\ result.rows = {[device_id |-> 42, extensions |-> 0, retractions |-> 1]}

\* the readings of device d on one side whose immediately preceding reading
\* is on the other: from the left to the right, and from the right to the left
LeftToRight(series, d) ==
    {i \in ReadingsOf(series, d) :
        /\ Earlier(series, i) # {}
        /\ series[i].extension_mm > 0
        /\ series[Preceding(series, i)].extension_mm < 0}
RightToLeft(series, d) ==
    {i \in ReadingsOf(series, d) :
        /\ Earlier(series, i) # {}
        /\ series[i].extension_mm < 0
        /\ series[Preceding(series, i)].extension_mm > 0}

\* C20: the side_switches query returns at most one row per device; its
\* left_to_right is the number of readings classified right (extension_mm
\* > 0) whose immediately preceding reading of the device, by observed_at, is
\* classified left (< 0), and right_to_left the converse, so that a
\* transition into or out of center (= 0) is never counted; a device without
\* a row has no such reading.
C20_SideSwitches ==
    result.key = "side_switches" =>
        LET series == result.series IN
        /\ ReadingsInOrder(series)
        /\ \A row \in result.rows : ReadingsOf(series, row.device_id) # {}
        /\ \A i \in DOMAIN series :
              LET d == series[i].device_id
                  counts == {row \in result.rows : row.device_id = d}
              IN /\ Cardinality(counts) <= 1
                 /\ \A row \in counts :
                       /\ row.left_to_right =
                             Cardinality(LeftToRight(series, d))
                       /\ row.right_to_left =
                             Cardinality(RightToLeft(series, d))
                 /\ counts = {} =>
                       LeftToRight(series, d) \cup RightToLeft(series, d) = {}

\* left, center, right in this order: no switch is counted
C20_Witness ==
    /\ result.key = "side_switches"
    /\ Len(result.series) = 3
    /\ result.series[1].extension_mm < 0
    /\ result.series[2].extension_mm = 0
    /\ result.series[3].extension_mm > 0
    /\ result.series[1].observed_at < result.series[2].observed_at
    /\ result.series[2].observed_at < result.series[3].observed_at
    /\ result.rows =
          {[device_id |-> 42, left_to_right |-> 0, right_to_left |-> 0]}

\* what the claim says a read of ingest_parse returns: one row per RawRecord,
\* parse_ok iff a fact refers to it, error non-null iff an IngestError refers
\* to it, and the fact's device when there is a fact
ParseRowsAsClaimed ==
    /\ BagCardinality(result.rows) = Cardinality(raw_record)
    /\ \A rr \in raw_record :
          \E row \in BagToSet(result.rows) :
              /\ row.raw_data_id = rr.id
              /\ CopiesIn(row, result.rows) = 1
              /\ row.parse_ok <=> HasFact(rr.id)
              /\ row.error # NULL <=> HasError(rr.id)
              /\ \A pr \in processed_record :
                    pr.raw_data_id = rr.id => row.device_id = <<pr.device_id>>

\* C21: in every reachable state a read of the diagnostic view ingest_parse
\* yields exactly one row per RawRecord, whatever its payload: parse_ok is
\* true iff a ProcessedRecord refers to the RawRecord, error is non-null iff
\* an IngestError refers to it, and device_id is the fact's device when a
\* fact exists.
C21_IngestParse ==
    result.key = "ingest_parse" => result.error = NULL /\ ParseRowsAsClaimed

\* the same of the reads that succeed
C21_IngestParseWhenReadable ==
    result.key = "ingest_parse" /\ result.error = NULL => ParseRowsAsClaimed

\* a read of three rows: a fact, a quarantined payload, a startup event
C21_Witness ==
    /\ result.key = "ingest_parse"
    /\ result.error = NULL
    /\ BagCardinality(result.rows) = 3
    /\ \E row \in BagToSet(result.rows) : row.parse_ok
    /\ \E row \in BagToSet(result.rows) :
          ~row.parse_ok /\ row.error # NULL /\ row.device_id = <<42>>
    /\ \E row \in BagToSet(result.rows) :
          ~row.parse_ok /\ row.error = NULL /\ row.device_id = NullNumeric

\* the rows of every table
AllRows ==
    <<raw_record, ingest_error, processed_record, device, record_type>>

\* the init scripts have just run again
InitRan == record_type_id_seq' = record_type_id_seq + Len(SeedNames)

\* C22: schema initialization is idempotent. The seed on the empty table
\* gives the four seeded rows; in every reachable state record_type holds
\* exactly one row for each of the four seeded names; and a run of the init
\* scripts on the initialized database, with any data already ingested,
\* leaves the rows of every table unchanged.
C22_Seeded ==
    /\ SeedInsert({}, 0, SeedNames).table = SeedRecordTypes
    /\ \A i \in DOMAIN SeedNames :
          Cardinality({t \in record_type : t.name = SeedNames[i]}) = 1

C22_Step == InitRan => AllRows' = AllRows

C22_InitIdempotent == []C22_Seeded /\ [][C22_Step]_vars

\* the scripts have run again (the SERIAL has moved on) over ingested data:
\* a fact, a quarantined payload, a provisioned device and a type seen since
C22_Witness ==
    /\ record_type_id_seq >= 4 + Len(SeedNames)
    /\ processed_record # {}
    /\ ingest_error # {}
    /\ Cardinality(record_type) = 5
    /\ Cardinality(raw_record) = 3

\* every reference of a fact and of an error names an existing row
ReferencesHold ==
    /\ \A pr \in processed_record :
          /\ \E d \in device : d.id = pr.device_id
          /\ \E rr \in raw_record : rr.id = pr.raw_data_id
          /\ \E t \in record_type : t.id = pr.type
    /\ \A ie \in ingest_error :
          \E rr \in raw_record : rr.id = ie.raw_data_id

\* a fact that a step adds finds its Device, RecordType and RawRecord rows
\* there already, and an error its RawRecord
InsertedAfterReferents ==
    /\ \A pr \in processed_record' \ processed_record :
          /\ \E d \in device : d.id = pr.device_id
          /\ \E t \in record_type : t.id = pr.type
          /\ \E rr \in raw_record : rr.id = pr.raw_data_id
    /\ \A ie \in ingest_error' \ ingest_error :
          \E rr \in raw_record : rr.id = ie.raw_data_id

\* C23: referential integrity holds in every reachable state: every
\* ProcessedRecord refers to an existing Device, RawRecord and RecordType and
\* every IngestError to an existing RawRecord; and a fact is inserted only
\* after its Device and RecordType rows exist.
C23_ReferentialIntegrity ==
    []ReferencesHold /\ [][InsertedAfterReferents]_vars

\* the handler has stored a fact of a type first seen with it, a client's
\* inserts have drawn ids without leaving a row, and an error is on record
C23_Witness ==
    /\ \E pr \in processed_record : pr.type = 5 /\ pr.device_id = 42
    /\ processed_record_id_seq > Cardinality(processed_record)
    /\ ingest_error # {}

\* the writers that are past the resolution of their element's type
ResolvedType(w) == handler[w].pc = "insert"

\* C24: RecordType is an append-only dimension with unique names. No two
\* rows share a name or an id; every writer that has resolved the type of its
\* element, and every fact, holds the id of the one row of that name, also
\* when several writers met at a name that was new to all of them; and no
\* step of telemetry ingestion updates or deletes a RecordType or Device row.
C24_Unique ==
    /\ \A t1, t2 \in record_type :
          t1.name = t2.name \/ t1.id = t2.id => t1 = t2
    /\ \A w \in Workers :
          ResolvedType(w) =>
             /\ Cardinality({t \in record_type :
                                t.name = Current(w).event_type}) = 1
             /\ \A t \in record_type :
                   t.name = Current(w).event_type => t.id = handler[w].type_id
    /\ \A pr \in processed_record :
          \A t \in record_type :
             t.name = RawMessage(pr.raw_data_id).event_type => t.id = pr.type

C24_Step ==
    /\ \A t \in record_type : t \in record_type'
    /\ \A d \in device : d \in device'

C24_AppendOnlyUniqueNames == []C24_Unique /\ [][C24_Step]_vars

\* two writers both looked the new name up before either inserted it; one
\* row exists and both hold its id
C24_Witness ==
    /\ handler["w1"].pc = "insert" /\ handler["w2"].pc = "insert"
    /\ Current("w1").event_type = "platform_tilt_deg"
    /\ Current("w2").event_type = "platform_tilt_deg"
    /\ record_type_id_seq = 6
    /\ Cardinality(record_type) = 5
    /\ handler["w1"].type_id = handler["w2"].type_id

\* the battery facts of a device
BatteryFacts(d) ==
    {pr \in processed_record :
        pr.device_id = d /\ TypeName(pr.type) = "battery_charge"}

\* x, in hundredths, is v rounded to one decimal place; and a, in
\* hundredths, is the mean of the values vs rounded to two
IsRoundedToTenth(x, v) == x % 10 = 0 /\ 2 * (x - v) <= 10 /\ 2 * (v - x) <= 10
RECURSIVE TotalOf(_)
TotalOf(facts) ==
    IF facts = {} THEN 0
    ELSE LET pr == CHOOSE x \in facts : TRUE
         IN 100 * pr.value.units + pr.value.hundredths
               + TotalOf(facts \ {pr})
IsRoundedMean(a, facts) ==
    LET n == Cardinality(facts) IN
    2 * (a * n - TotalOf(facts)) <= n /\ 2 * (TotalOf(facts) - a * n) <= n

\* what the summary says beside the order of its three figures: a row per
\* device with battery facts and only for those, min and max of the values
\* rounded to one place, the mean rounded to two, the latest record_time
BatteryRowsAsComputed ==
    /\ \A d \in {pr.device_id : pr \in processed_record} :
          BatteryFacts(d) # {} <=>
             Cardinality({row \in result.rows : row.device_id = d}) = 1
    /\ \A row \in result.rows :
          LET facts == BatteryFacts(row.device_id) IN
          /\ facts # {}
          /\ \E lo, hi \in facts :
                /\ \A pr \in facts :
                      /\ TotalOf({lo}) <= TotalOf({pr})
                      /\ TotalOf({pr}) <= TotalOf({hi})
                /\ IsRoundedToTenth(row.min_pct, TotalOf({lo}))
                /\ IsRoundedToTenth(row.max_pct, TotalOf({hi}))
          /\ IsRoundedMean(row.avg_pct, facts)
          /\ \E pr \in facts : pr.record_time = row.last_seen
          /\ \A pr \in facts : pr.record_time <= row.last_seen

\* C25: for every device row of the battery summary min_pct <= avg_pct <=
\* max_pct and last_seen is the greatest record_time of the device's
\* battery_charge facts, with min and max rounded to one decimal place and
\* the mean to two; a device appears iff it has a battery_charge fact.
C25_BatterySummary ==
    result.key = "metric_battery_summary" =>
        /\ BatteryRowsAsComputed
        /\ \A row \in result.rows :
              row.min_pct <= row.avg_pct /\ row.avg_pct <= row.max_pct

\* the summary without the order of its figures
C25_BatterySummaryFigures ==
    result.key = "metric_battery_summary" => BatteryRowsAsComputed

\* 80.04, 80.06 and 79.50 of device 42: min 79.5, max 80.1, mean 79.87
C25_Witness ==
    /\ result.key = "metric_battery_summary"
    /\ result.rows =
          {[device_id |-> 42, min_pct |-> 7950, max_pct |-> 8010,
            avg_pct |-> 7987, last_seen |-> 5]}

\* what a request with a curated key is answered: the key's SQL and the rows
\* the database has for it, or a server error when there is no pool or the
\* database cannot be reached
CuratedAnswer ==
    \/ /\ result.status = 200
       /\ result.body.sql = result.param
       /\ result.body.rows \in QueryRows(result.param)
       /\ _pool # NoPool
    \/ /\ result.status = 500
       /\ \/ _pool = NoPool /\ result.body.error = "DATABASE_URL is not set"
          \/ _pool # NoPool /\ result.body.error = QueryError

\* C26: the example-query handler runs a query only for its four curated
\* keys: a request with any other key (absent, empty, any other string) is
\* answered 400 invalid_query_key without the pool being obtained or a query
\* issued; a curated key is answered 200 with its SQL and rows, or 500 when
\* the pool or the query fails.
C26_CuratedKeysOnly ==
    result.key = "examples/run" =>
        IF result.param \in CuratedKeys
        THEN CuratedAnswer
        ELSE /\ result.status = 400
             /\ result.body = [error |-> "invalid_query_key"]
             /\ ~result.got_pool
             /\ ~result.queried

\* the same of the keys that name no member of an object
C26_OwnKeys ==
    (result.key = "examples/run" /\ result.param \notin InheritedKeys) =>
        C26_CuratedKeysOnly

\* a curated key answered with rows, and an unknown key refused
C26_Witness ==
    /\ result.key = "examples/run"
    /\ result.param = "devices_both_formats"
    /\ result.status = 200
    /\ result.body.rows # {}

\* a response of a handler that called getPool
CalledGetPool ==
    \/ result.key = "metrics/avg-extension-mm"
    \/ result.key = "examples/run" /\ result.got_pool

\* C28: the pool is created at most once: with DATABASE_URL set every call of
\* getPool returns the same Pool, of at most 5 connections; with it unset
\* getPool throws and creates no pool, and a metrics handler that called it
\* answers 500.
C28_OnePool ==
    /\ Len(pools) <= 1
    /\ DATABASE_URL \notin Unset =>
          /\ _pool # NoPool =>
                pools[_pool] = [connectionString |-> DATABASE_URL, max |-> 5]
          /\ CalledGetPool => result.pool = 1 /\ _pool = 1
    /\ DATABASE_URL \in Unset =>
          /\ pools = <<>>
          /\ _pool = NoPool
          /\ CalledGetPool =>
                /\ result.status = 500
                /\ result.body = [error |-> "DATABASE_URL is not set"]

\* the metrics handler answers with the mean of 100 ticks and 5 mm, 5.000,
\* read through the one pool
C28_Witness ==
    /\ result.key = "metrics/avg-extension-mm"
    /\ result.status = 200
    /\ Cardinality(processed_record) = 2
    /\ result.body = {[device_id |-> 42, avg_extension_mm |-> 5000]}
    /\ result.pool = 1
    /\ Len(pools) = 1

\* no fetch of any poll is awaited, and every poll returned
AllPollsReturned ==
    /\ polls # <<>>
    /\ \A p \in DOMAIN polls : polls[p].fetch = Finished

\* C27 (tables): once every poll has completed, each of the four tables shows
\* the rows fetched by the poll started last.
C27_Shown ==
    (mounted = "yes" /\ AllPollsReturned) =>
        \A table \in TableNames : shown[table] = Len(polls)

\* C27 (unmount): no table is updated after unmount.
C27_Step == [][mounted = "gone" => shown' = shown]_vars

\* C27: loadAll is started on mount and every 3 seconds until unmount,
\* whether or not the previous poll has finished; under every interleaving of
\* the polls, once all have completed each table shows the rows of the poll
\* started last; no table is updated after unmount.
C27_Polling == []C27_Shown /\ C27_Step

\* what the code does guarantee: a table shows the rows of a poll that
\* got past the fetch of that table (or has thrown since), no poll starts before mount or after
\* unmount, and no table changes after unmount
C27_ShownFetched ==
    /\ \A i \in DOMAIN Tables :
          LET p == shown[Tables[i]] IN
          p # NoPoll =>
              /\ p \in DOMAIN polls
              /\ polls[p].fetch > i \/ polls[p].fetch = Thrown
    /\ mounted = "no" => polls = <<>>

C27_PollingAsBuilt ==
    /\ []C27_ShownFetched
    /\ C27_Step
    /\ [][mounted = "gone" => Len(polls') = Len(polls)]_vars

\* two polls have returned, the second before the first
C27_Witness ==
    /\ mounted = "yes"
    /\ AllPollsReturned
    /\ Len(polls) = 2
    /\ shown["height"] = 1
====
